---------------------------- MODULE Spec2Model ----------------------------
(***************************************************************************)
(* Model of the AlmaLinux mirrors service: the request-time mirror        *)
(* selector (src/src/backend/api/handlers.py), the shared caches           *)
(* (src/src/backend/api/redis.py) and the update cycle that commits the    *)
(* MirrorSet and warms the mirrors-list cache.                             *)
(*                                                                         *)
(* Text is a sequence of tokens.  Version strings are spelled character    *)
(* by character (<<"8", ".", "9">>), URLs and paths are spelled with "/"   *)
(* as a token of its own, so that prefix tests and URL joins are computed  *)
(* the way the code computes them.                                         *)
(***************************************************************************)
EXTENDS Integers, Sequences, FiniteSets, TLC

VARIABLES
    config,      \* ServiceConfig read by get_config
    fleet,       \* the mirror declarations read by get_mirrors_info
    db,          \* committed rows of the Mirror table, in insertion order
    listCache,   \* redis: mirrors_list_* entries, one per filter combination
    ipCache,     \* redis: per-IP selection entries (key, list)
    lock,        \* MIRRORS_UPDATE_PID file exists
    upd,         \* position of the running update cycle
    resp,        \* the last response of the request path
    vcall,       \* the last direct call of get_allowed_version
    nreq,        \* number of requests still to serve
    ncycle,      \* number of update cycles still to start
    tx,          \* the session of the running commit: its uncommitted rows
    seen,        \* the last filtered query of a reader of the store
    call,        \* the last direct call of a function, with its result
    flapCache,   \* redis: mirror_offline_<name> entries with their expiry
    geoCache,    \* redis: nominatim_* entries of the geocoder
    clock,       \* the time, in ticks
    feeds,       \* the IP-range documents the cloud providers publish
    subnetsCache,\* redis: <provider>_subnets entries with their expiry
    fan,         \* the probe tasks of one fan-out and the check_tasks awaiting them
    geoReq,      \* the check_mirror tasks of a cycle at the online geocoder
    side,        \* committed rows of the tables Url, ModuleUrl, Subnet, SubnetInt
    inv          \* the position of each concurrent update_mirrors_handler call

vars == <<config, fleet, db, listCache, ipCache, lock, upd, resp, vcall, nreq, ncycle,
          tx, seen, call, flapCache, geoCache, clock, feeds, subnetsCache,
          fan, geoReq, side, inv>>

---------------------------------------------------------------------------
(* Generic helpers on sequences.                                           *)

Range(s) == {s[i] : i \in 1..Len(s)}

Min(a, b) == IF a <= b THEN a ELSE b

Abs(x) == IF x < 0 THEN -x ELSE x

\* s[1..n], as the Python slice s[:n]
Take(s, n) == SubSeq(s, 1, Min(n, Len(s)))

\* the Python list comprehension [x for x in s if Test(x)]
Filter(s, Test(_)) == SelectSeq(s, Test)

\* the list of the values f[1], ..., f[n] of a function on 1..n
AsList(f) == SubSeq(f, 1, Len(f))

Rotate(s, k) == SubSeq(s, k + 1, Len(s)) \o SubSeq(s, 1, k)

\* str.startswith
StartsWith(s, p) == Len(p) <= Len(s) /\ SubSeq(s, 1, Len(p)) = p

\* str.endswith
EndsWith(s, p) == Len(p) <= Len(s) /\ SubSeq(s, Len(s) - Len(p) + 1, Len(s)) = p

\* the substring test  a in b  of two Python strings
IsSubstring(a, b) ==
    \E i \in 0..(Len(b) - Len(a)) : SubSeq(b, i + 1, i + Len(a)) = a

\* Outcomes of random.shuffle that the model explores: the rotations of the
\* list.  Every element reaches every position; for lists of up to two
\* elements these are all the permutations.
Shuffles(s) ==
    IF Len(s) <= 1 THEN {s}
    ELSE {Rotate(s, k) : k \in 0..(Len(s) - 1)}

---------------------------------------------------------------------------
(* Paths and URLs.                                                         *)

SLASH == "/"

\* str.split('/') on a token sequence: the segments between the "/" tokens
RECURSIVE SplitSlash(_)
SplitSlash(s) ==
    IF \A i \in 1..Len(s) : s[i] # SLASH THEN <<s>>
    ELSE LET i == CHOOSE j \in 1..Len(s) :
                      s[j] = SLASH /\ \A k \in 1..(j - 1) : s[k] # SLASH
         IN  <<SubSeq(s, 1, i - 1)>> \o SplitSlash(SubSeq(s, i + 1, Len(s)))

\* '/'.join(segments)
RECURSIVE JoinSlash(_)
JoinSlash(segs) ==
    IF segs = <<>> THEN <<>>
    ELSE IF Len(segs) = 1 THEN segs[1]
    ELSE segs[1] \o <<SLASH>> \o JoinSlash(Tail(segs))

\* os.path.join(a, b): an absolute b replaces a, else b is appended with
\* exactly one separator between
PathJoin2(a, b) ==
    IF b # <<>> /\ Head(b) = SLASH THEN b
    ELSE IF a = <<>> \/ a[Len(a)] = SLASH THEN a \o b
    ELSE a \o <<SLASH>> \o b

\* os.path.join(a, b, c)
PathJoin(a, b, c) == PathJoin2(PathJoin2(a, b), c)

\* A URL is <<scheme, "/", "/", netloc>> followed by its path tokens.
UrlPrefix(url) == SubSeq(url, 1, 4)
UrlPath(url) == SubSeq(url, 5, Len(url))

NonEmptySeg(seg) == seg # <<>>

\* urllib.parse.urljoin(base, ref) for a relative reference without scheme,
\* authority, query, fragment or dot segments, not starting with "/":
\* the base path loses its last segment, the reference's segments follow,
\* empty segments between the first and the last are dropped.
UrlJoin(base, ref) ==
    LET bparts == SplitSlash(UrlPath(base))
        kept   == IF bparts[Len(bparts)] # <<>>
                  THEN SubSeq(bparts, 1, Len(bparts) - 1) ELSE bparts
        segs   == kept \o SplitSlash(ref)
        n      == Len(segs)
        mid    == IF n <= 2 THEN segs
                  ELSE <<segs[1]>> \o Filter(SubSeq(segs, 2, n - 1), NonEmptySeg)
                       \o <<segs[n]>>
        path   == JoinSlash(mid)
    IN  UrlPrefix(base) \o (IF path = <<>> THEN <<SLASH>> ELSE path)

---------------------------------------------------------------------------
(* Service configuration.                                                  *)

V7   == <<"7">>
V8   == <<"8">>
V84  == <<"8", ".", "4">>
V89  == <<"8", ".", "9">>
V891 == <<"8", ".", "9", ".", "1">>
V9   == <<"9">>
V10  == <<"1", "0">>

PathBaseOS == <<"BaseOS", SLASH, "$basearch", SLASH, "os">>
PathVault  == <<"extras", SLASH, "$basearch", SLASH, "os">>

RepoBaseOS == [name |-> "BaseOS", path |-> PathBaseOS, vault |-> FALSE]
RepoVault  == [name |-> "vault-extras", path |-> PathVault, vault |-> TRUE]

VaultMirrorSlash   == <<"https:", SLASH, SLASH, "vault.example", SLASH>>
VaultMirrorNoSlash == <<"https:", SLASH, SLASH, "vault.example", SLASH, "vault">>

\* duplicated_versions is a dict: a sequence of <<key, value>> in insertion order
DictKeys(d) == {d[i][1] : i \in 1..Len(d)}
DictGet(d, k) == d[CHOOSE i \in 1..Len(d) : d[i][1] = k][2]

\* d[k] = v: the value of an existing key is replaced in place, a new key
\* is added at the end
DictSet(d, k, v) ==
    IF k \in DictKeys(d)
    THEN AsList([i \in 1..Len(d) |-> IF d[i][1] = k THEN <<k, v>> ELSE d[i]])
    ELSE Append(d, <<k, v>>)

\* d.update(other)
RECURSIVE DictUpdate(_, _)
DictUpdate(d, other) ==
    IF other = <<>> THEN d
    ELSE DictUpdate(DictSet(d, other[1][1], other[1][2]), Tail(other))

\* arches of the service configuration: version -> list of arches, a dict
\* as a sequence of <<key, value>>
ArchX86 == <<"x86_64">>
ArchArm == <<"aarch64">>
ArchSparc == <<"sparc">>
Arches == <<<<V8, <<ArchX86, ArchArm>>>>, <<V9, <<ArchX86, ArchArm>>>>>>

MkConfig(vs, vaults, dups, vm) ==
    [versions |-> vs, vault_versions |-> vaults, duplicated_versions |-> dups,
     repos |-> <<RepoBaseOS, RepoVault>>, vault_mirror |-> vm,
     arches |-> Arches]

\* The configurations of the service runs: the fixture of the scenarios
\* (versions 8, 8.9, 9; vault 7; 8 duplicated to 8.9), with both spellings
\* of vault_mirror.
ServiceConfigs ==
    {MkConfig(<<V8, V89, V9>>, <<V7>>, <<<<V8, V89>>>>, vm) :
        vm \in {VaultMirrorSlash, VaultMirrorNoSlash}}

\* The configurations the direct calls of get_allowed_version are run with.
VersionLists == {<<>>, <<V8>>, <<V8, V89>>, <<V8, V89, V9>>, <<V7, V8>>}
VaultLists   == {<<>>, <<V7>>, <<V7, V8>>, <<V84>>}
DupDicts     == {<<>>, <<<<V8, V89>>>>, <<<<V8, V89>>, <<V89, V9>>>>,
                 <<<<V89, V9>>, <<V8, V89>>>>, <<<<V7, V8>>>>}
VersionConfigs ==
    {MkConfig(vs, vaults, dups, VaultMirrorSlash) :
        vs \in VersionLists, vaults \in VaultLists, dups \in DupDicts}

VersionInputs == {V7, V8, V84, V89, V891, V9, V10}

---------------------------------------------------------------------------
(* Version and repository validation.                                      *)

NoError == ""
UnknownRepoAttribute == "UnknownRepoAttribute"

Ok(v) == [err |-> NoError, val |-> v]
Raise(e) == [err |-> e, val |-> <<>>]

\* next(ver for ver in duplicated_versions if version.startswith(ver)):
\* the first key, in dict order, that is a prefix of the version
FirstPrefixKey(dups, version) ==
    LET hits == {i \in 1..Len(dups) : StartsWith(version, dups[i][1])}
    IN  IF hits = {} THEN 0 ELSE CHOOSE i \in hits : \A j \in hits : i <= j

get_allowed_version(versions, vault_versions, duplicated_versions, version) ==
    IF version \notin Range(versions) /\ version \notin Range(vault_versions)
    THEN LET i == FirstPrefixKey(duplicated_versions, version)
         IN  IF i = 0 THEN Raise(UnknownRepoAttribute)
             ELSE Ok(duplicated_versions[i][2])
    ELSE IF version \in Range(versions) /\ version \in DictKeys(duplicated_versions)
    THEN Ok(DictGet(duplicated_versions, version))
    ELSE Ok(version)

is_vault_repo_version_only(version, vault_versions, hasRepo, repo) ==
    version \in Range(vault_versions)

\* _is_vault_repo; hasRepo is  repo is not None
is_vault_repo(version, vault_versions, hasRepo, repo) ==
    version \in Range(vault_versions) \/ (hasRepo /\ repo.vault)

---------------------------------------------------------------------------
(* Addresses, subnets, GeoIP and ASN databases.                            *)

Ip(a, b, c, d) == ((a * 256 + b) * 256 + c) * 256 + d

RECURSIVE Pow2(_)
Pow2(n) == IF n = 0 THEN 1 ELSE 2 * Pow2(n - 1)

\* an absent client address (ip_address is None)
NoIp == [v |-> 0, addr |-> 0]
Ip4(a, b, c, d) == [v |-> 4, addr |-> Ip(a, b, c, d)]

Cidr(a, b, c, d, len) == [v |-> 4, net |-> Ip(a, b, c, d), len |-> len]

\* ipaddress: network_address and broadcast_address of a network
NetworkAddress(subnet) == subnet.net
BroadcastAddress(subnet) == subnet.net + Pow2(32 - subnet.len) - 1

\* is_ip_in_any_subnet: ip_network(ip) is the /32 of the address, and
\* a.subnet_of(b) is b.network <= a.network and a.broadcast <= b.broadcast
is_ip_in_any_subnet(ip_address, subnets) ==
    \E i \in 1..Len(subnets) :
        /\ ip_address.v = subnets[i].v
        /\ NetworkAddress(subnets[i]) <= ip_address.addr
        /\ ip_address.addr <= BroadcastAddress(subnets[i])

\* Client addresses of the model.
IpInA     == Ip4(10, 1, 0, 7)      \* inside the subnet of mirror a
IpInM     == Ip4(10, 3, 0, 255)    \* broadcast address of the subnet of mirror m
IpGeo     == Ip4(10, 8, 0, 1)      \* ASN of mirror m, GeoIP hit in the US
IpAsn     == Ip4(10, 9, 0, 1)      \* ASN of mirror a, no GeoIP data
IpCoarse  == Ip4(10, 7, 0, 1)      \* GeoIP hit without city, state and country
IpFar     == Ip4(10, 6, 0, 1)      \* inside the subnets of the big fleet

NoMatch == [found |-> FALSE, continent |-> "", country |-> "", state |-> "",
            city |-> "", latitude |-> 0]
GeoHit(continent, country, state, city, latitude) ==
    [found |-> TRUE, continent |-> continent, country |-> country,
     state |-> state, city |-> city, latitude |-> latitude]

\* get_geo_data_by_ip: the offline GeoIP database.  All places of the model
\* lie on one meridian, so a place is its latitude in degrees.
get_geo_data_by_ip(ip) ==
    IF ip = IpInA THEN GeoHit("EU", "DE", "Hesse", "Frankfurt", 50)
    ELSE IF ip = IpInM THEN GeoHit("EU", "FR", "IDF", "Paris", 48)
    ELSE IF ip = IpGeo THEN GeoHit("NA", "US", "NY", "New York", 40)
    ELSE IF ip = IpFar THEN GeoHit("NA", "US", "NY", "New York", 40)
    ELSE IF ip = IpCoarse THEN GeoHit("", "", "", "", 38)
    ELSE NoMatch

\* get_asn_by_ip: the ASN as a string, <<>> for None (AddressNotFoundError)
AsnA == <<"6", "4", "5", "0", "0">>
AsnM == <<"6", "4", "5", "1", "1">>
get_asn_by_ip(ip) ==
    IF ip = IpAsn THEN AsnA
    ELSE IF ip = IpGeo THEN AsnM
    ELSE <<>>

\* int(haversine(a, b)) for two places on one meridian: 111.19 km a degree
get_distance_in_km(mirror_lat, request_lat) ==
    (Abs(mirror_lat - request_lat) * 11119) \div 100

RANDOMIZE_WITHIN_KM == 500
LENGTH_GEO_MIRRORS_LIST == 10
LENGTH_CLOUD_MIRRORS_LIST == 5

---------------------------------------------------------------------------
(* Stable sorting, as Python's sorted() on (a, b) keys.                    *)

LexLess(x, y) == x[1] < y[1] \/ (x[1] = y[1] /\ x[2] < y[2])

\* the sorted list of [key, item] entries with one more entry put behind
\* the entries whose key is not greater
InsertByKey(sorted, entry) ==
    LET before == {i \in 1..Len(sorted) : ~LexLess(entry.key, sorted[i].key)}
        k      == Cardinality(before)
    IN  SubSeq(sorted, 1, k) \o <<entry>> \o SubSeq(sorted, k + 1, Len(sorted))

RECURSIVE SortEntries(_, _, _)
SortEntries(s, keys, n) ==
    IF n = 0 THEN <<>>
    ELSE InsertByKey(SortEntries(s, keys, n - 1), [key |-> keys[n], item |-> s[n]])

\* s sorted by keys (keys[i] is the key of s[i]); equal keys keep their order
SortByKey(s, keys) ==
    LET entries == SortEntries(s, keys, Len(s))
    IN  AsList([q \in 1..Len(s) |-> entries[q].item])

\* the order of the strings the model sorts (code point order)
Collation == <<"", ",", "AS", "CA", "DE", "EU", "FR", "NA", "NL", "US", "Unknown", "_",
               "a", "c", "d", "e", "i", "l", "n", "o", "p", "r", "s", "t",
               "u", "v">>
StrRank(x) == CHOOSE i \in 1..Len(Collation) : Collation[i] = x

---------------------------------------------------------------------------
(* Mirror declarations and the environment they are probed in.             *)

\* ','.join(list of strings)
RECURSIVE JoinComma(_)
JoinComma(strs) ==
    IF strs = <<>> THEN <<>>
    ELSE IF Len(strs) = 1 THEN strs[1]
    ELSE strs[1] \o <<",">> \o JoinComma(Tail(strs))

Url(scheme, host, path) == <<scheme, SLASH, SLASH, host>> \o path

\* A declaration (process_mirror_config) with the answers of the world for
\* it: probes is the set of statuses the status step can find, iso the
\* answer of the ISO-set probe, place the GeoIP data of its address.
Decl(name, url, private, monopoly, cloud_type, cloud_region, subnets, asn, continent, country, latitude, probes, iso) ==
    [name |-> name, mirror_url |-> url, private |-> private,
     monopoly |-> monopoly, cloud_type |-> cloud_type,
     cloud_region |-> cloud_region, subnets |-> subnets, asn |-> asn,
     continent |-> continent, country |-> country, latitude |-> latitude,
     probes |-> probes, iso |-> iso]

SmallFleet ==
    << Decl("a.example", Url("https:", "a.example", <<SLASH, "almalinux">>),
            FALSE, FALSE, "", "", <<Cidr(10, 1, 0, 0, 16)>>, <<AsnA>>,
            "EU", "DE", 50, {"ok", "expired"}, TRUE),
       Decl("p.example", Url("http:", "p.example", <<SLASH, "alma", SLASH>>),
            TRUE, FALSE, "", "", <<Cidr(10, 2, 0, 0, 16)>>, <<>>,
            "NA", "US", 41, {"ok"}, FALSE),
       Decl("m.example", Url("https:", "m.example", <<>>),
            FALSE, TRUE, "", "", <<Cidr(10, 3, 0, 0, 24)>>, <<AsnM>>,
            "EU", "FR", 48, {"ok", "expired"}, FALSE),
       Decl("c.example", Url("http:", "c.example", <<SLASH>>),
            FALSE, FALSE, "azure", "westeurope", <<>>, <<>>,
            "EU", "NL", 52, {"ok"}, TRUE),
       Decl("b.example", Url("https:", "b.example", <<SLASH, "pub", SLASH, "alma">>),
            FALSE, FALSE, "", "", <<>>, <<>>,
            "NA", "US", 40, {"ok"}, TRUE),
       Decl("d.example", Url("http:", "d.example", <<SLASH, "almalinux">>),
            FALSE, FALSE, "", "", <<Cidr(10, 1, 0, 0, 16)>>, <<AsnA>>,
            "EU", "DE", 51, {"down"}, TRUE) >>

\* A fleet larger than both list limits: BigFleetSize public mirrors, the
\* first BigFleetMatching of them serving the subnet of IpFar, the first
\* BigFleetFew also the subnet of IpInA.
BigFleetSize == 11
BigFleetMatching == 6
BigFleetFew == 2
BigNames == <<"g01", "g02", "g03", "g04", "g05", "g06", "g07", "g08", "g09",
              "g10", "g11", "g12", "g13", "g14">>
BigFleet ==
    AsList([i \in 1..BigFleetSize |->
        Decl(BigNames[i], Url("https:", BigNames[i], <<SLASH, "almalinux">>),
             FALSE, FALSE, "", "",
             (IF i <= BigFleetMatching THEN <<Cidr(10, 6, 0, 0, 16)>> ELSE <<>>)
             \o (IF i <= BigFleetFew THEN <<Cidr(10, 1, 0, 0, 16)>> ELSE <<>>),
             <<>>, "NA", IF i % 2 = 0 THEN "US" ELSE "CA", 36 + i, {"ok"}, TRUE)])

---------------------------------------------------------------------------
(* The update cycle: probing and the committed rows.                       *)

\* str.lower() of the region names in use
Lower(text) ==
    CASE text = "GLOBAL" -> "global"
      [] text = "WestEurope" -> "westeurope"
      [] text = "US-East-1" -> "us-east-1"
      [] OTHER -> text

\* The IP-range documents of the providers.  Unavailable stands for a fetch
\* that fails (get_*_subnets_json returns None).  A document of AWS, GCP or
\* OCI is the list of its <<region, CIDR>> prefixes, a document of Azure
\* the list of its values [cloud, region, addressPrefixes], cloud telling
\* whether the name starts with 'AzureCloud.'.
Unavailable == <<"unavailable">>

AwsDoc ==
    << <<"us-east-1", Cidr(10, 10, 0, 0, 16)>>,
       <<"eu-west-1", Cidr(10, 12, 0, 0, 16)>>,
       <<"us-east-1", Cidr(10, 10, 0, 0, 16)>>,
       <<"GLOBAL", Cidr(10, 11, 0, 0, 16)>> >>

GcpDoc ==
    << <<"us-east1", Cidr(10, 20, 0, 0, 16)>>,
       <<"global", Cidr(10, 21, 0, 0, 16)>> >>

OciDoc == << <<"us-ashburn-1", Cidr(10, 30, 0, 0, 16)>> >>

AzureDoc ==
    << [cloud |-> TRUE, region |-> "westeurope",
        addressPrefixes |-> <<Cidr(10, 4, 0, 0, 16)>>],
       [cloud |-> FALSE, region |-> "",
        addressPrefixes |-> <<Cidr(10, 5, 0, 0, 16)>>] >>

\* the loop of get_aws_subnets (and of the GCP and OCI ones): the prefixes
\* are gathered under the lowered region, each CIDR once
RECURSIVE GroupPrefixes(_, _)
GroupPrefixes(prefixes, subnets) ==
    IF prefixes = <<>> THEN subnets
    ELSE LET region == Lower(prefixes[1][1])
             have   == IF region \in DictKeys(subnets)
                       THEN DictGet(subnets, region) ELSE <<>>
             next   == IF prefixes[1][2] \in Range(have) THEN have
                       ELSE Append(have, prefixes[1][2])
         IN  GroupPrefixes(Tail(prefixes), DictSet(subnets, region, next))

\* the loop of get_azure_subnets: the values of the public cloud, region
\* by region
RECURSIVE AzureRegions(_, _)
AzureRegions(values, subnets) ==
    IF values = <<>> THEN subnets
    ELSE AzureRegions(Tail(values),
                      IF values[1].cloud
                      THEN DictSet(subnets, Lower(values[1].region),
                                   values[1].addressPrefixes)
                      ELSE subnets)

\* the TTL set_subnets_to_cache gives an entry (24 hours), in ticks
SUBNETS_EXPIRED_TIME == 24

\* get_subnets_from_cache and set_subnets_to_cache
NoSubnets == [present |-> FALSE, value |-> <<>>, expires |-> 0]
get_subnets_from_cache(cache, key, now) ==
    IF cache[key].present /\ cache[key].expires > now
    THEN [present |-> TRUE, value |-> cache[key].value]
    ELSE [present |-> FALSE, value |-> <<>>]
set_subnets_to_cache(cache, key, subnets, now) ==
    [cache EXCEPT ![key] = [present |-> TRUE, value |-> subnets,
                            expires |-> now + SUBNETS_EXPIRED_TIME]]

\* get_<provider>_subnets: the cached map if there is one, else the map
\* read from the document, which is cached; an empty map, which is not
\* cached, when the fetch fails
get_subnets(cache, key, doc, parsed, now) ==
    LET cached == get_subnets_from_cache(cache, key, now)
    IN  IF cached.present THEN [subnets |-> cached.value, cache |-> cache]
        ELSE IF doc = Unavailable THEN [subnets |-> <<>>, cache |-> cache]
        ELSE [subnets |-> parsed,
              cache |-> set_subnets_to_cache(cache, key, parsed, now)]

get_aws_subnets(cache, doc, now) ==
    get_subnets(cache, "aws_subnets", doc, GroupPrefixes(doc, <<>>), now)
get_gcp_subnets(cache, doc, now) ==
    get_subnets(cache, "gcp_subnets", doc, GroupPrefixes(doc, <<>>), now)
get_oci_subnets(cache, doc, now) ==
    get_subnets(cache, "oci_subnets", doc, GroupPrefixes(doc, <<>>), now)
get_azure_subnets(cache, doc, now) ==
    get_subnets(cache, "azure_subnets", doc, AzureRegions(doc, <<>>), now)

SubnetKeys == {"aws_subnets", "gcp_subnets", "oci_subnets", "azure_subnets"}

\* every provider publishes its document
Published == [aws |-> AwsDoc, gcp |-> GcpDoc, oci |-> OciDoc, azure |-> AzureDoc]

\* the subnets of update_mirrors_handler in handlers.py: the map of AWS
\* updated with the one of Azure
HandlerSubnets(cache, world, now) ==
    LET aws   == get_aws_subnets(cache, world.aws, now)
        azure == get_azure_subnets(aws.cache, world.azure, now)
    IN  [subnets |-> DictUpdate(aws.subnets, azure.subnets),
         cache |-> azure.cache]

\* the subnets of the update script: the map of AWS updated with the ones
\* of GCP, of OCI and of Azure, in this order
ScriptSubnets(cache, world, now) ==
    LET aws   == get_aws_subnets(cache, world.aws, now)
        gcp   == get_gcp_subnets(aws.cache, world.gcp, now)
        oci   == get_oci_subnets(gcp.cache, world.oci, now)
        azure == get_azure_subnets(oci.cache, world.azure, now)
    IN  [subnets |-> DictUpdate(DictUpdate(DictUpdate(aws.subnets, gcp.subnets),
                                           oci.subnets), azure.subnets),
         cache |-> azure.cache]

\* ','.join(cloud_regions) of the declaration, then
\* cloud_region.lower().split(','): one key for each region, and one empty
\* key for an empty text
SplitRegions(cloud_region) ==
    CASE cloud_region = "us-east-1,eu-west-1" -> <<"us-east-1", "eu-west-1">>
      [] OTHER -> <<Lower(cloud_region)>>

\* the ranges listed for the regions, in the order of the regions
RECURSIVE RangesOf(_, _)
RangesOf(cloud_regions, subnets) ==
    IF cloud_regions = <<>> THEN <<>>
    ELSE (IF cloud_regions[1] \in DictKeys(subnets)
          THEN DictGet(subnets, cloud_regions[1]) ELSE <<>>)
         \o RangesOf(Tail(cloud_regions), subnets)

\* set_subnets_for_cloud_mirror: the subnets of a mirror of AWS or of Azure
\* are replaced with the ranges of its regions
set_subnets_for_cloud_mirror(subnets, mirror_info) ==
    IF mirror_info.cloud_type \notin {"aws", "azure"} THEN mirror_info.subnets
    ELSE RangesOf(SplitRegions(mirror_info.cloud_region), subnets)

\* WHITELIST_MIRRORS
WHITELIST_MIRRORS == {"repo.almalinux.org"}

\* The body of a mirror's TIME file as float() reads it: no body (the fetch
\* failed), a number, 'nan', 'inf', or text float() rejects with ValueError.
NotFetched == [kind |-> "none", value |-> 0]
Number(n) == [kind |-> "number", value |-> n]
NaNText == [kind |-> "nan", value |-> 0]
InfText == [kind |-> "inf", value |-> 0]
Garbage == [kind |-> "text", value |-> 0]

\* float(result) raises ValueError
FloatRaises(body) == body.kind = "text"

\* float(result) < bound for a finite bound: false for nan and for inf
FloatLess(body, bound) == body.kind = "number" /\ body.value < bound

\* the clock of the update cycle and allowed_outdate, in hours
Now == 100
AllowedOutdate == 24

\* The answers of the world to the probes of one mirror: the DNS query, the
\* GET of the mirror URL, the TIME file, the repodata probes of the
\* cross-product, the GeoIP lookup of its address, the ISO-set probe, the
\* answer of the online geocoder (0: none).
Answers(dns, root, time, repos, geo, iso, geocoder) ==
    [dns |-> dns, root |-> root, time |-> time, repos |-> repos, geo |-> geo,
     iso |-> iso, geocoder |-> geocoder]

\* the answers behind a status found by the probes
AnswersFor(probed) ==
    Answers(TRUE, probed # "down",
            IF probed = "expired" THEN Number(Now - AllowedOutdate - 1)
            ELSE Number(Now - 1),
            <<TRUE, TRUE>>, TRUE, TRUE, 0)

\* no entry mirror_offline_<name> in the cache
NoFlap == ""

\* the reasons of a failed GET of the mirror URL and of a failed repodata
\* probe (str(err))
ReasonRoot == "down"
ReasonRepo == "no repodata"

\* is_mirror_expired at the time now
is_mirror_expired(body, now) ==
    IF body.kind = "none" THEN TRUE
    ELSE IF FloatRaises(body) THEN TRUE
    ELSE FloatLess(body, now - AllowedOutdate)

\* check_tasks over a non-empty list of probes: false as soon as a finished
\* probe failed, true when none is pending any more (the tasks themselves are
\* modelled by StartFanOut, TaskRun, TaskAcquire, TaskFinish, CheckTasksWake;
\* the empty list raises, see WaitRaises)
check_tasks(results) == \A i \in 1..Len(results) : results[i]

\* mirror_available
mirror_available(mirror_info, world) ==
    IF mirror_info.private THEN TRUE ELSE check_tasks(world.repos)

\* A status step that reports a mirror with a flap entry as flapped instead
\* of giving it the cached reason.
set_status_marking_flapped(mirror_info, world, flap, now) ==
    IF flap # NoFlap THEN [status |-> "flapped", flap |-> flap, probes |-> {}]
    ELSE IF mirror_info.private \/ mirror_info.name \in WHITELIST_MIRRORS
    THEN [status |-> "ok", flap |-> flap, probes |-> {}]
    ELSE IF ~world.root
    THEN [status |-> ReasonRoot, flap |-> ReasonRoot, probes |-> {"root"}]
    ELSE IF is_mirror_expired(world.time, now)
    THEN [status |-> "expired", flap |-> flap, probes |-> {"root", "TIME"}]
    ELSE IF ~mirror_available(mirror_info, world)
    THEN [status |-> ReasonRepo, flap |-> ReasonRepo,
          probes |-> {"root", "TIME", "repodata"}]
    ELSE [status |-> "ok", flap |-> flap,
          probes |-> {"root", "TIME", "repodata"}]

\* A status step that gives a mirror with a flap entry the cached reason
\* after it has fetched the mirror URL all the same.
set_status_probing_flapped(mirror_info, world, flap, now) ==
    IF flap # NoFlap THEN [status |-> flap, flap |-> flap, probes |-> {"root"}]
    ELSE IF mirror_info.private \/ mirror_info.name \in WHITELIST_MIRRORS
    THEN [status |-> "ok", flap |-> flap, probes |-> {}]
    ELSE IF ~world.root
    THEN [status |-> ReasonRoot, flap |-> ReasonRoot, probes |-> {"root"}]
    ELSE IF is_mirror_expired(world.time, now)
    THEN [status |-> "expired", flap |-> flap, probes |-> {"root", "TIME"}]
    ELSE IF ~mirror_available(mirror_info, world)
    THEN [status |-> ReasonRepo, flap |-> ReasonRepo,
          probes |-> {"root", "TIME", "repodata"}]
    ELSE [status |-> "ok", flap |-> flap,
          probes |-> {"root", "TIME", "repodata"}]

\* set_status_of_mirror: the status, the flap-cache entry it leaves and the
\* HTTP probes it makes (the GET of the mirror URL, of the TIME file, of the
\* repodata); flap is what cache.get returns for mirror_offline_<name>
set_status_of_mirror(mirror_info, world, flap, now) ==
    IF flap # NoFlap THEN [status |-> flap, flap |-> flap, probes |-> {}]
    ELSE IF mirror_info.private \/ mirror_info.name \in WHITELIST_MIRRORS
    THEN [status |-> "ok", flap |-> flap, probes |-> {}]
    ELSE IF ~world.root
    THEN [status |-> ReasonRoot, flap |-> ReasonRoot, probes |-> {"root"}]
    ELSE IF is_mirror_expired(world.time, now)
    THEN [status |-> "expired", flap |-> flap, probes |-> {"root", "TIME"}]
    ELSE IF ~mirror_available(mirror_info, world)
    THEN [status |-> ReasonRepo, flap |-> ReasonRepo,
          probes |-> {"root", "TIME", "repodata"}]
    ELSE [status |-> "ok", flap |-> flap,
          probes |-> {"root", "TIME", "repodata"}]

\* set_mirror_have_full_iso_set runs for public non-cloud mirrors that are ok
\* or expired; the flag is False by default
set_mirror_have_full_iso_set(decl, status) ==
    IF status \in {"ok", "expired"} /\ ~decl.private /\ decl.cloud_type = ""
    THEN decl.iso ELSE FALSE

\* The row committed for a mirror (Mirror(...) in update_mirrors_handler).
MirrorRow(decl, probed, subnets) ==
    LET status == set_status_of_mirror(decl, AnswersFor(probed), NoFlap, Now).status
    IN  [name |-> decl.name, status |-> status, private |-> decl.private,
         monopoly |-> decl.monopoly, cloud_type |-> decl.cloud_type,
         has_full_iso_set |-> set_mirror_have_full_iso_set(decl, status),
         subnets |-> set_subnets_for_cloud_mirror(subnets, decl),
         asn |-> JoinComma(decl.asn), mirror_url |-> decl.mirror_url,
         continent |-> decl.continent, country |-> decl.country,
         latitude |-> decl.latitude]

CommittedStatus(row) == row.status \in {"ok", "expired"}

\* the rows inserted by the commit: mirrors that are neither ok nor expired
\* are skipped
CommitRows(decls, probed, subnets) ==
    Filter(AsList([i \in 1..Len(decls) |-> MirrorRow(decls[i], probed[i], subnets)]),
           CommittedStatus)

\* the answers the probes of one cycle can give
RECURSIVE ProbeOutcomesUpTo(_, _)
ProbeOutcomesUpTo(decls, n) ==
    IF n = 0 THEN {<<>>}
    ELSE {Append(pr, status) : pr \in ProbeOutcomesUpTo(decls, n - 1),
                               status \in decls[n].probes}
ProbeOutcomes(decls) == ProbeOutcomesUpTo(decls, Len(decls))


---------------------------------------------------------------------------
(* The update script: loading the declarations, the checks of one mirror,   *)
(* the commit.                                                             *)

\* MainConfig.required_protocols
required_protocols == <<"https">>

\* A mirror's YAML file with the answers of the world for the mirror.
\* address is the list of <<type, url>> of its address block.
Yaml(name, address, private, cloud_type, cloud_region, subnets, answers) ==
    [name |-> name, address |-> address, private |-> private,
     cloud_type |-> cloud_type, cloud_region |-> cloud_region,
     subnets |-> subnets, answers |-> answers]

\* config_validation against MIRROR_CONFIG_SCHEMA: the address block needs
\* an http or an https entry
config_validation(yaml_data) ==
    \E i \in 1..Len(yaml_data.address) :
        yaml_data.address[i][1] \in {"http", "https"}

\* get_mirror_url: next(url for type, url in urls if type in
\* required_protocols), which raises StopIteration when there is none
get_mirror_url(protocols, urls) ==
    LET hits == SelectSeq(urls, LAMBDA u : u[1] \in Range(protocols))
    IN  IF hits = <<>> THEN [raised |-> "StopIteration", url |-> <<>>]
        ELSE [raised |-> "", url |-> hits[1][2]]

\* process_mirror_config
\* yaml_data.get('address_optional', {})
address_optional(yaml_data) ==
    IF "address_optional" \in DOMAIN yaml_data THEN yaml_data.address_optional
    ELSE <<>>

process_mirror_config(yaml_data) ==
    LET found == get_mirror_url(required_protocols, yaml_data.address)
    IN  [raised |-> found.raised, none |-> FALSE,
         info |-> [name |-> yaml_data.name, urls |-> yaml_data.address,
                   module_urls |-> address_optional(yaml_data),
                   private |-> yaml_data.private,
                   cloud_type |-> yaml_data.cloud_type,
                   cloud_region |-> yaml_data.cloud_region,
                   subnets |-> yaml_data.subnets,
                   mirror_url |-> found.url,
                   answers |-> yaml_data.answers]]

\* get_mirror_config: None for a file the schema rejects
get_mirror_config(yaml_data) ==
    IF ~config_validation(yaml_data)
    THEN [raised |-> "", none |-> TRUE, info |-> <<>>]
    ELSE process_mirror_config(yaml_data)

\* get_mirrors_info: the loop over the files, which no try block surrounds
RECURSIVE get_mirrors_info(_)
get_mirrors_info(yamls) ==
    IF yamls = <<>> THEN [raised |-> "", result |-> <<>>]
    ELSE LET first == get_mirror_config(Head(yamls))
         IN  IF first.raised # "" THEN [raised |-> first.raised, result |-> <<>>]
             ELSE LET rest == get_mirrors_info(Tail(yamls))
                  IN  IF rest.raised # "" THEN rest
                      ELSE [raised |-> "",
                            result |-> (IF first.none THEN <<>>
                                        ELSE <<first.info>>) \o rest.result]

\* FLAPPED_EXPIRED_TIME, in ticks of the clock
FLAPPED_EXPIRED_TIME == 3

\* cache.get and cache.set(key, value, timeout) of the flap cache: an entry
\* is gone once its time is over
NoEntry == [value |-> NoFlap, expires |-> 0]
\* A cache whose entries never run out: the reason is read back whatever the
\* time is.
cache_get_without_ttl(cache, key, now) == cache[key].value
cache_get(cache, key, now) ==
    IF cache[key].value # NoFlap /\ cache[key].expires > now
    THEN cache[key].value ELSE NoFlap
cache_set(cache, key, value, now) ==
    [cache EXCEPT ![key] = [value |-> value,
                            expires |-> now + FLAPPED_EXPIRED_TIME]]

\* the statuses set_ip_for_mirror and set_geo_and_location_data_from_db leave
StatusUnknown == "Unknown"
StatusUnknownIp == "Unknown IP"
StatusUnknownGeo == "Unknown geodata for any IP of the mirror"

\* set_ip_for_mirror
set_ip_for_mirror(mirror_info, world) ==
    IF world.dns THEN [ip |-> "known", status |-> StatusUnknown]
    ELSE [ip |-> "Unknown", status |-> StatusUnknownIp]

\* check_mirror of the script: the row of the mirror and the two caches after
\* it. world.geo is the latitude GeoIP gives for the address (0: no match),
\* world.geocoder the one the online geocoder gives (0: none); gc holds the
\* latitude cached under the mirror's nominatim key.
check_mirror(mirror_info, subnets, fc, gc, now) ==
    LET world    == mirror_info.answers
        name     == mirror_info.name
        resolved == set_ip_for_mirror(mirror_info, world)
        known    == resolved.ip # "Unknown"
        flap     == cache_get(fc, name, now)
        stat     == IF known
                    THEN set_status_of_mirror(mirror_info, world, flap, now)
                    ELSE [status |-> resolved.status, flap |-> flap,
                          probes |-> {}]
        fc1      == IF stat.flap # flap
                    THEN cache_set(fc, name, stat.flap, now) ELSE fc
        eligible == stat.status \in {"ok", "expired"} /\ known
        match    == eligible /\ world.geo # 0
        status   == IF eligible /\ ~match /\ ~mirror_info.private
                    THEN StatusUnknownGeo ELSE stat.status
        online   == match /\ status = "ok"
        latitude == IF ~match THEN 0
                    ELSE IF online /\ gc[name] # 0 THEN gc[name]
                    ELSE IF online /\ world.geocoder # 0 THEN world.geocoder
                    ELSE world.geo
        gc1      == IF online /\ gc[name] = 0 /\ world.geocoder # 0
                    THEN [gc EXCEPT ![name] = world.geocoder] ELSE gc
        isos     == eligible /\ ~mirror_info.private /\ mirror_info.cloud_type = ""
    IN  [probes |-> stat.probes
                    \cup (IF isos THEN {"iso"} ELSE {})
                    \cup (IF online /\ gc[name] = 0 THEN {"geocoder"} ELSE {}),
         row |-> [name |-> name, status |-> status, ip |-> resolved.ip,
                  private |-> mirror_info.private, monopoly |-> FALSE,
                  cloud_type |-> mirror_info.cloud_type,
                  has_full_iso_set |->
                      (eligible /\ ~mirror_info.private
                       /\ mirror_info.cloud_type = "" /\ world.iso),
                  subnets |-> IF eligible
                              THEN set_subnets_for_cloud_mirror(subnets, mirror_info)
                              ELSE mirror_info.subnets,
                  asn |-> <<>>, mirror_url |-> mirror_info.mirror_url,
                  continent |-> IF match THEN "EU" ELSE "Unknown",
                  country |-> IF match THEN "DE" ELSE "Unknown",
                  latitude |-> latitude],
         fc |-> fc1, gc |-> gc1]

\* asyncio.gather(*tasks): the checks of all mirrors, here one after another
RECURSIVE CheckAll(_, _, _, _, _)
CheckAll(infos, subnets, fc, gc, now) ==
    IF infos = <<>> THEN [rows |-> <<>>, probes |-> <<>>, fc |-> fc, gc |-> gc]
    ELSE LET one  == check_mirror(Head(infos), subnets, fc, gc, now)
             rest == CheckAll(Tail(infos), subnets, one.fc, one.gc, now)
         IN  [rows |-> <<one.row>> \o rest.rows,
              probes |-> <<one.probes>> \o rest.probes,
              fc |-> rest.fc, gc |-> rest.gc]

\* ip_network(subnet) raises ValueError for a prefix length out of range
\* and for host bits set
ip_network_raises(subnet) ==
    \/ subnet.len > 32
    \/ subnet.net % Pow2(32 - subnet.len) # 0

\* the commit of the script: every checked mirror is added with its status,
\* and ip_network runs on each of its subnets inside the session
CommitRaises(rows) ==
    \E i \in 1..Len(rows) : \E j \in 1..Len(rows[i].subnets) :
        ip_network_raises(rows[i].subnets[j])

---------------------------------------------------------------------------
(* The address of a request.                                               *)

\* The text of an address as ipaddress.ip_address reads it: it parses or
\* raises ValueError, and a parsed address is private or not.
AddrText(text, parses, private) ==
    [text |-> text, parses |-> parses, private |-> private]

\* None, for a header or a variable that is absent
None == [text |-> "None", parses |-> FALSE, private |-> FALSE]

\* request.headers.get('X-Forwarded-For'): None, or the header split at
\* its commas
NoHeader == [present |-> FALSE, parts |-> <<>>]
Header(parts) == [present |-> TRUE, parts |-> parts]

\* the loop over ip_address.split(','): the first part that parses and is
\* not private; a part that does not parse is logged and skipped
RECURSIVE FirstPublic(_)
FirstPublic(parts) ==
    IF parts = <<>> THEN None
    ELSE IF Head(parts).parses /\ ~Head(parts).private THEN Head(parts)
    ELSE FirstPublic(Tail(parts))

\* _get_request_ip:  ',' in ip_address  raises TypeError for None; a header
\* without a comma is returned as it is
get_request_ip(test_ip_address, forwarded_for, real_ip, remote_addr) ==
    IF ~forwarded_for.present THEN [raised |-> "TypeError", result |-> None]
    ELSE LET result == IF Len(forwarded_for.parts) >= 2
                       THEN FirstPublic(forwarded_for.parts)
                       ELSE forwarded_for.parts[1]
         IN  [raised |-> "",
              result |-> IF test_ip_address # None THEN test_ip_address
                         ELSE result]

---------------------------------------------------------------------------
(* The store: filtered queries.                                            *)

\* a filter combination of get_all_mirrors
Flags(working, no_cloud, no_private, iso) ==
    [working |-> working, no_cloud |-> no_cloud, no_private |-> no_private,
     iso |-> iso]

AllFlags == [working : BOOLEAN, no_cloud : BOOLEAN, no_private : BOOLEAN,
             iso : BOOLEAN]

PassesFilterNoWorking(row, f) ==
    /\ f.no_private => ~row.private
    /\ f.iso => row.has_full_iso_set
    /\ f.no_cloud => row.cloud_type = ""

PassesFilter(row, f) ==
    /\ f.no_private => ~row.private
    /\ f.iso => row.has_full_iso_set
    /\ f.working => row.status = "ok"
    /\ f.no_cloud => row.cloud_type = ""

\* get_all_mirrors_db: ORDER BY continent, country, then the filters
get_all_mirrors_db(rows, f) ==
    LET keys   == AsList([i \in 1..Len(rows) |->
                      <<StrRank(rows[i].continent), StrRank(rows[i].country)>>])
        sorted == SortByKey(rows, keys)
        Keep(row) == PassesFilter(row, f)
    IN  Filter(sorted, Keep)

---------------------------------------------------------------------------
(* The shared cache (redis).                                               *)

Chars_actual     == <<"a", "c", "t", "u", "a", "l">>
Chars_no_cloud   == <<"n", "o", "_", "c", "l", "o", "u", "d">>
Chars_no_private == <<"n", "o", "_", "p", "r", "i", "v", "a", "t", "e">>
Chars_iso        == <<"i", "s", "o">>

redis_key_without_iso(f) ==
    <<"mirrors_list_">> \o
        (IF f.working \/ f.no_cloud \/ f.no_private
         THEN (IF f.working THEN <<"actual">> ELSE <<>>)
              \o (IF f.no_cloud THEN <<"no_cloud">> ELSE <<>>)
              \o (IF f.no_private THEN <<"no_private">> ELSE <<>>)
         ELSE <<"full">>)

\* _generate_redis_key_for_the_mirrors_list: each  suffixes += '<word>'
\* extends the list by the characters of the word; the key is the sorted
\* characters joined by commas, or 'full'
generate_redis_key_for_the_mirrors_list(f) ==
    LET suffixes == (IF f.working THEN Chars_actual ELSE <<>>)
                    \o (IF f.no_cloud THEN Chars_no_cloud ELSE <<>>)
                    \o (IF f.no_private THEN Chars_no_private ELSE <<>>)
                    \o (IF f.iso THEN Chars_iso ELSE <<>>)
        keys     == AsList([i \in 1..Len(suffixes) |-> <<StrRank(suffixes[i]), 0>>])
        sorted   == SortByKey(suffixes, keys)
    IN  <<"mirrors_list_">> \o
        (IF suffixes # <<>>
         THEN JoinComma(AsList([i \in 1..Len(sorted) |-> <<sorted[i]>>]))
         ELSE <<"full">>)

\* redis GET: [found, data]
CacheGet(cache, key) ==
    IF \E e \in cache : e.key = key
    THEN [found |-> TRUE, data |-> (CHOOSE e \in cache : e.key = key).data]
    ELSE [found |-> FALSE, data |-> <<>>]

\* redis SET
CachePut(cache, key, data) ==
    {e \in cache : e.key # key} \cup {[key |-> key, data |-> data]}

\* the key of a per-IP entry: the address, with '_iso' appended for ISO lists
IpKeyNoSuffix(ip_address, iso) == <<ip_address.addr>>
IpKey(ip_address, iso) ==
    IF iso THEN <<ip_address.addr, "_iso">> ELSE <<ip_address.addr>>

\* the key of each of the sixteen filter combinations, computed once
RedisKeys ==
    {[flags |-> f, key |-> generate_redis_key_for_the_mirrors_list(f)] :
        f \in AllFlags}
RedisKey(f) == (CHOOSE r \in RedisKeys : r.flags = f).key

\* get_mirror_list / set_mirror_list
get_mirror_list(lc, f) == CacheGet(lc, RedisKey(f))
set_mirror_list(lc, mirrors, f) == CachePut(lc, RedisKey(f), mirrors)

\* refresh_mirrors_cache
refresh_mirrors_cache(lc, rows, f) ==
    set_mirror_list(lc, get_all_mirrors_db(rows, f), f)

---------------------------------------------------------------------------
(* The selector.                                                           *)

\* MirrorData.load_from_json(json.loads(...)) of a dumped mirror
load_from_json(dct) ==
    [name |-> dct.name, status |-> dct.status, private |-> dct.private,
     monopoly |-> dct.monopoly, cloud_type |-> dct.cloud_type,
     has_full_iso_set |-> dct.has_full_iso_set, subnets |-> dct.subnets,
     asn |-> dct.asn, mirror_url |-> dct.mirror_url,
     continent |-> dct.continent, country |-> dct.country,
     latitude |-> dct.latitude]

LoadAll(data) == AsList([i \in 1..Len(data) |-> load_from_json(data[i])])

\* get_all_mirrors: the cached list, refilled from the store when the entry
\* is missing or empty, then shuffled.  The cache it leaves, and the lists
\* it can return.
get_all_mirrors_cache(lc, rows, f) ==
    LET first == get_mirror_list(lc, f)
    IN  IF ~first.found \/ first.data = <<>>
        THEN refresh_mirrors_cache(lc, rows, f) ELSE lc
get_all_mirrors(lc, rows, f) ==
    Shuffles(LoadAll(get_mirror_list(get_all_mirrors_cache(lc, rows, f), f).data))

\* sort_mirrors_by_distance_and_country: [distance, mirror] entries sorted
\* by (country != client country, distance)
sort_mirrors_by_distance_and_country(request_lat, mirrors, country) ==
    LET entries == AsList([i \in 1..Len(mirrors) |->
                       [distance |-> get_distance_in_km(mirrors[i].latitude,
                                                        request_lat),
                        mirror |-> mirrors[i]]])
        keys    == AsList([i \in 1..Len(mirrors) |->
                       <<IF mirrors[i].country # country THEN 1 ELSE 0,
                         entries[i].distance>>])
    IN  SortByKey(entries, keys)

MirrorsOf(entries) == AsList([i \in 1..Len(entries) |-> entries[i].mirror])

randomize_every_bucket(sorted, country) ==
    LET InC(e)  == e.mirror.country = country
        OutC(e) == e.mirror.country # country
    IN  {a \o b : a \in Shuffles(MirrorsOf(Filter(sorted, InC))),
                  b \in Shuffles(MirrorsOf(Filter(sorted, OutC)))}

\* randomize_mirrors_within_distance: four buckets, the two within the
\* radius shuffled.  Outcomes: lists of mirrors.
randomize_mirrors_within_distance(sorted, country) ==
    LET InNear(e)   == e.distance <= RANDOMIZE_WITHIN_KM /\ e.mirror.country = country
        InFar(e)    == e.distance > RANDOMIZE_WITHIN_KM /\ e.mirror.country = country
        OutNear(e)  == e.distance <= RANDOMIZE_WITHIN_KM /\ e.mirror.country # country
        OutFar(e)   == e.distance > RANDOMIZE_WITHIN_KM /\ e.mirror.country # country
        mirrors_in_country_shuffled == MirrorsOf(Filter(sorted, InNear))
        mirrors_in_country          == MirrorsOf(Filter(sorted, InFar))
        other_mirrors_shuffled      == MirrorsOf(Filter(sorted, OutNear))
        other_mirrors               == MirrorsOf(Filter(sorted, OutFar))
    IN  {a \o mirrors_in_country \o b \o other_mirrors :
            a \in Shuffles(mirrors_in_country_shuffled),
            b \in Shuffles(other_mirrors_shuffled)}

\* the test of the network-affinity loop: the client's ASN occurs in the
\* mirror's asn string, or the address lies in one of its subnets
IsNetworkMatch(mirror, ip_address, asn) ==
    \/ asn # <<>> /\ IsSubstring(asn, mirror.asn)
    \/ is_ip_in_any_subnet(ip_address, mirror.subnets)

\* _is_additional_mirrors_suitable
is_additional_mirrors_suitable(mirror_data, main_list_of_mirrors) ==
    /\ mirror_data.status = "ok"
    /\ ~mirror_data.private
    /\ mirror_data \notin Range(main_list_of_mirrors)

\* the loop of _get_nearest_mirrors_by_network_data: the matching ok
\* mirrors in list order, cut short by the first monopoly mirror among them
NetworkScanAnyMonopoly(mirrors, ip_address, asn) ==
    LET Hit(m)  == m.status = "ok" /\ (m.monopoly \/ IsNetworkMatch(m, ip_address, asn))
        matched == Filter(mirrors, Hit)
        monos   == {i \in 1..Len(matched) : matched[i].monopoly}
    IN  IF monos # {}
        THEN [monopoly |-> TRUE,
              list |-> <<matched[CHOOSE i \in monos : \A j \in monos : i <= j]>>]
        ELSE [monopoly |-> FALSE, list |-> matched]
NetworkScanNoMonopoly(mirrors, ip_address, asn) ==
    LET Hit(m) == m.status = "ok" /\ IsNetworkMatch(m, ip_address, asn)
    IN  [monopoly |-> FALSE, list |-> Filter(mirrors, Hit)]
NetworkScan(mirrors, ip_address, asn) ==
    LET Hit(m)  == m.status = "ok" /\ IsNetworkMatch(m, ip_address, asn)
        matched == Filter(mirrors, Hit)
        monos   == {i \in 1..Len(matched) : matched[i].monopoly}
    IN  IF monos # {}
        THEN [monopoly |-> TRUE,
              list |-> <<matched[CHOOSE i \in monos : \A j \in monos : i <= j]>>]
        ELSE [monopoly |-> FALSE, list |-> matched]

\* _get_nearest_mirrors_by_network_data on the (shuffled) filtered list.
\* Outcomes: lists of mirrors.
get_nearest_mirrors_by_network_data_truncated(ip_address, mirrors) ==
    {Take(NetworkScan(mirrors, ip_address, get_asn_by_ip(ip_address)).list,
          LENGTH_CLOUD_MIRRORS_LIST)}
get_nearest_mirrors_by_network_data(ip_address, mirrors) ==
    LET match == get_geo_data_by_ip(ip_address)
        asn   == get_asn_by_ip(ip_address)
        scan  == NetworkScan(mirrors, ip_address, asn)
        suitable_mirrors == scan.list
        Additional(m) == is_additional_mirrors_suitable(m, suitable_mirrors)
    IN  IF scan.monopoly THEN {suitable_mirrors}
        ELSE IF 1 <= Len(suitable_mirrors)
                /\ Len(suitable_mirrors) < LENGTH_CLOUD_MIRRORS_LIST
                /\ match.found
        THEN {suitable_mirrors
                \o Take(r, LENGTH_CLOUD_MIRRORS_LIST - Len(suitable_mirrors)) :
              r \in randomize_mirrors_within_distance(
                        sort_mirrors_by_distance_and_country(
                            match.latitude, Filter(mirrors, Additional),
                            match.country),
                        match.country)}
        ELSE {suitable_mirrors}

\* _get_nearest_mirrors_by_geo_data on the (shuffled) filtered list.
\* Outcomes: lists of mirrors.
get_nearest_mirrors_by_geo_data_truncated(ip_address, mirrors) ==
    {Take(m, LENGTH_GEO_MIRRORS_LIST) : m \in {mirrors}}
get_nearest_mirrors_by_geo_data(ip_address, mirrors) ==
    LET match == get_geo_data_by_ip(ip_address)
    IN  IF ~match.found THEN {mirrors}
        ELSE IF match.city # "" \/ match.state # "" \/ match.country # ""
        THEN {Take(r, LENGTH_GEO_MIRRORS_LIST) :
              r \in randomize_mirrors_within_distance(
                        sort_mirrors_by_distance_and_country(
                            match.latitude, mirrors, match.country),
                        match.country)}
        ELSE {Take(r, LENGTH_GEO_MIRRORS_LIST) : r \in Shuffles(mirrors)}

Selection(mirrors, src, lc, ic) ==
    [mirrors |-> mirrors, src |-> src, lc |-> lc, ic |-> ic]

\* _get_nearest_mirrors.  Outcomes: [mirrors, src, lc, ic], src naming the
\* branch that produced the list.  The geo pass reads the list again.
get_nearest_mirrors(ip_address, f, lc, ic, rows) ==
    LET lc1 == get_all_mirrors_cache(lc, rows, f)
    IN  IF ip_address = NoIp
        THEN {Selection(m, "all", lc1, ic) : m \in get_all_mirrors(lc, rows, f)}
        ELSE
        LET key == IpKey(ip_address, f.iso)
            hit == CacheGet(ic, key)
            lc2 == get_all_mirrors_cache(lc1, rows, f)
            by_network == UNION {get_nearest_mirrors_by_network_data(ip_address, m) :
                                 m \in get_all_mirrors(lc, rows, f)}
            by_geo == UNION {get_nearest_mirrors_by_geo_data(ip_address, m) :
                             m \in get_all_mirrors(lc1, rows, f)}
        IN  IF hit.found
            THEN {Selection(LoadAll(hit.data), "cache", lc, ic)}
            ELSE {Selection(n, "network", lc1, CachePut(ic, key, n)) :
                    n \in by_network \ {<<>>}}
                 \cup (IF <<>> \in by_network
                       THEN {Selection(g, "geo", lc2, CachePut(ic, key, g)) :
                               g \in by_geo}
                       ELSE {})

---------------------------------------------------------------------------
(* The request handlers.                                                   *)

NoRepo == [name |-> "", path |-> <<>>, vault |-> FALSE]

NoArch == <<>>

\* repos = {repo.name: repo for repo in config.repos}
HasRepo(repos, repository) == \E i \in 1..Len(repos) : repos[i].name = repository
RepoOf(repos, repository) ==
    repos[CHOOSE i \in 1..Len(repos) :
            repos[i].name = repository
            /\ \A j \in (i + 1)..Len(repos) : repos[j].name # repository]

\* the filters of a mirrors list and of an ISO list
MirrorListFlags == Flags(TRUE, FALSE, FALSE, FALSE)
IsoListFlags    == Flags(TRUE, TRUE, TRUE, TRUE)

NoResp ==
    [kind |-> "none", ip |-> NoIp, version |-> <<>>, repository |-> "",
     arch |-> NoArch, iso_list |-> FALSE, err |-> NoError, vault |-> FALSE,
     nver |-> <<>>, repo_path |-> <<>>, src |-> "", mirrors |-> <<>>,
     urls |-> <<>>]

Failed(ip_address, version, arch, repository, iso_list, e) ==
    [NoResp EXCEPT !.kind = "mirrors_list", !.ip = ip_address,
                   !.version = version, !.repository = repository,
                   !.arch = arch, !.iso_list = iso_list, !.err = e]

\* urljoin(mirror.mirror_url + '/', f'{version}/{repo_path}') per mirror
RenderUrlsReversed(mirrors, version, repo_path) ==
    AsList([i \in 1..Len(mirrors) |->
        UrlJoin(mirrors[Len(mirrors) + 1 - i].mirror_url \o <<SLASH>>,
                version \o <<SLASH>> \o repo_path)])
RenderUrls(mirrors, version, repo_path) ==
    AsList([i \in 1..Len(mirrors) |->
        UrlJoin(mirrors[i].mirror_url \o <<SLASH>>,
                version \o <<SLASH>> \o repo_path)])

\* get_mirrors_list.  Outcomes: [resp, lc, ic].
get_mirrors_list(cfg, ip_address, version, arch, repository, iso_list, lc, ic, rows) ==
    IF ~iso_list /\ ~HasRepo(cfg.repos, repository)
    THEN {[resp |-> Failed(ip_address, version, arch, repository, iso_list,
                           UnknownRepoAttribute),
           lc |-> lc, ic |-> ic]}
    ELSE
    LET allowed == get_allowed_version(cfg.versions, cfg.vault_versions,
                                       cfg.duplicated_versions, version)
    IN  IF allowed.err # NoError
        THEN {[resp |-> Failed(ip_address, version, arch, repository, iso_list,
                               allowed.err),
               lc |-> lc, ic |-> ic]}
        ELSE
        LET nver      == allowed.val
            repo      == IF iso_list THEN NoRepo ELSE RepoOf(cfg.repos, repository)
            repo_path == IF iso_list THEN <<"isos", SLASH>> \o arch ELSE repo.path
            base      == [NoResp EXCEPT !.kind = "mirrors_list", !.ip = ip_address,
                                        !.version = version,
                                        !.repository = repository, !.arch = arch,
                                        !.iso_list = iso_list, !.nver = nver,
                                        !.repo_path = repo_path]
        IN  IF is_vault_repo(nver, cfg.vault_versions, ~iso_list, repo)
            THEN {[resp |-> [base EXCEPT !.vault = TRUE, !.src = "vault",
                                         !.urls = <<PathJoin(cfg.vault_mirror,
                                                             nver, repo_path)>>],
                   lc |-> lc, ic |-> ic]}
            ELSE {[resp |-> [base EXCEPT !.src = sel.src, !.mirrors = sel.mirrors,
                                         !.urls = RenderUrls(sel.mirrors, nver,
                                                             repo_path)],
                   lc |-> sel.lc, ic |-> sel.ic] :
                  sel \in get_nearest_mirrors(
                              ip_address,
                              IF iso_list THEN IsoListFlags ELSE MirrorListFlags,
                              lc, ic, rows)}

\* get_isos_list_by_countries: the ISO mirrors by country (read through
\* get_all_mirrors, which may refill the cache), then the nearest ones.
get_isos_list_by_countries(ip_address, lc, ic, rows) ==
    {[resp |-> [NoResp EXCEPT !.kind = "isos_by_countries", !.ip = ip_address,
                              !.iso_list = TRUE, !.src = sel.src,
                              !.mirrors = sel.mirrors],
      lc |-> sel.lc, ic |-> sel.ic] :
     sel \in get_nearest_mirrors(ip_address, IsoListFlags,
                                 get_all_mirrors_cache(lc, rows, IsoListFlags),
                                 ic, rows)}

---------------------------------------------------------------------------
(* session_scope (db/utils.py:21-37): what a session leaves in a table     *)
(* that held the rows committed, when its with block worked towards the   *)
(* rows target.                                                            *)

\* a session whose deletes stay when the block raises
session_without_rollback(committed, target, raised) ==
    IF raised THEN <<>> ELSE target

\* session.commit() at the end of the block; session.rollback() and raise
\* on any exception
session_scope(committed, target, raised) ==
    IF raised THEN committed ELSE target

---------------------------------------------------------------------------
(* The tables next to Mirror.  A row carries the cycle that created it.    *)

RECURSIVE Flatten(_)
Flatten(lists) ==
    IF lists = <<>> THEN <<>> ELSE Head(lists) \o Flatten(Tail(lists))

\* urls_to_create of every mirror
UrlRows(infos, cycle) ==
    Flatten([i \in 1..Len(infos) |->
        [j \in 1..Len(infos[i].urls) |->
            [mirror |-> infos[i].name, type |-> infos[i].urls[j][1],
             url |-> infos[i].urls[j][2], cycle |-> cycle]]])

\* the ModuleUrl rows of one module of a mirror
ModuleRows(name, entry, cycle) ==
    [j \in 1..Len(entry[2]) |->
        [mirror |-> name, module |-> entry[1], type |-> entry[2][j][1],
         url |-> entry[2][j][2], cycle |-> cycle]]

\* module_urls_to_create of every mirror
ModuleUrlRows(infos, cycle) ==
    Flatten([i \in 1..Len(infos) |->
        Flatten([m \in 1..Len(infos[i].module_urls) |->
            ModuleRows(infos[i].name, infos[i].module_urls[m], cycle)])])

\* subnets_to_create of every mirror
SubnetRows(rows, cycle) ==
    Flatten([i \in 1..Len(rows) |->
        [j \in 1..Len(rows[i].subnets) |->
            [mirror |-> rows[i].name, subnet |-> rows[i].subnets[j],
             cycle |-> cycle]]])

\* the SubnetInt rows: the first and the last address of each subnet
SubnetIntRows(rows, cycle) ==
    Flatten([i \in 1..Len(rows) |->
        [j \in 1..Len(rows[i].subnets) |->
            [mirror |-> rows[i].name,
             subnet_start |-> NetworkAddress(rows[i].subnets[j]),
             subnet_end |-> BroadcastAddress(rows[i].subnets[j]),
             cycle |-> cycle]]])

\* The session of the update script: Url, Subnet and SubnetInt are emptied
\* and refilled; ModuleUrl is not emptied, its new rows are added.
ScriptSide(tables, infos, rows, cycle) ==
    [url        |-> UrlRows(infos, cycle),
     module_url |-> tables.module_url \o ModuleUrlRows(infos, cycle),
     subnet     |-> SubnetRows(rows, cycle),
     subnet_int |-> SubnetIntRows(rows, cycle)]

\* The session of the handler of api/handlers.py: Url and Subnet are emptied
\* and refilled for the committed mirrors (a declaration carries the one URL
\* of the mirror); ModuleUrl and SubnetInt are not touched.
HandlerSide(tables, rows, cycle) ==
    [tables EXCEPT
        !.url = [i \in 1..Len(rows) |->
                    [mirror |-> rows[i].name, type |-> Head(rows[i].mirror_url),
                     url |-> rows[i].mirror_url, cycle |-> cycle]],
        !.subnet = SubnetRows(rows, cycle)]

---------------------------------------------------------------------------
(* Bounds of the model.                                                    *)

\* requests and update cycles of a run of the service
MaxRequests == 2
MaxCycles == 2
\* requests and update cycles of a run of the ISO scenario
MaxIsoRequests == 3
MaxIsoCycles == 1
\* update cycles of a run with the big fleet
MaxBigCycles == 1

\* reads and update cycles of a run with the commit in steps
MaxTxReads == 1
MaxTxCycles == 2

\* pairs of selections and update cycles of the ordering scenario
MaxOrderCalls == 1
MaxOrderCycles == 1

\* direct calls of _get_request_ip
MaxIpCalls == 1

\* runs of the update script and direct calls of its functions
MaxScriptCycles == 2
MaxCloudCycles == 1
MaxFeedCalls == 2
MaxFeedTime == 24
MaxLoaderCalls == 2

---------------------------------------------------------------------------
(* Actions.                                                                *)

\* no session is open; no reader has run; no direct call was made
NoTx == [open |-> FALSE, target |-> <<>>, n |-> 0]
NoRead == [done |-> FALSE, rows |-> <<>>, flags |-> Flags(FALSE, FALSE, FALSE, FALSE),
           old |-> <<>>, new |-> <<>>]
NoDirectCall == [fn |-> "none"]

NoCall == [version |-> <<>>, result |-> Ok(<<>>), called |-> FALSE]

\* itertools.product((True, False), repeat=4), the order of the warm-up
ProductFlags ==
    AsList([k \in 1..16 |->
        Flags(((k - 1) \div 8) % 2 = 0, ((k - 1) \div 4) % 2 = 0,
              ((k - 1) \div 2) % 2 = 0, (k - 1) % 2 = 0)])

\* GET /mirrorlist/<version>/<repository> and GET /isolist/<version>/<arch>
Request(ip_address, version, arch, repository, iso_list) ==
    /\ nreq > 0
    /\ \E o \in get_mirrors_list(config, ip_address, version, arch, repository,
                                 iso_list, listCache, ipCache, db) :
          /\ resp' = o.resp
          /\ listCache' = o.lc
          /\ ipCache' = o.ic
    /\ nreq' = nreq - 1
    /\ UNCHANGED <<inv, fan, geoReq, side, feeds, subnetsCache, flapCache, geoCache, clock, tx, seen, call, config, fleet, db, lock, upd, vcall, ncycle>>

\* GET /isos/<arch>/<version>
RequestIsos(ip_address) ==
    /\ nreq > 0
    /\ \E o \in get_isos_list_by_countries(ip_address, listCache, ipCache, db) :
          /\ resp' = o.resp
          /\ listCache' = o.lc
          /\ ipCache' = o.ic
    /\ nreq' = nreq - 1
    /\ UNCHANGED <<inv, fan, geoReq, side, feeds, subnetsCache, flapCache, geoCache, clock, tx, seen, call, config, fleet, db, lock, upd, vcall, ncycle>>

\* update_mirrors_handler up to the end of the commit: the lock file is
\* taken, every mirror is probed, the rows are replaced in one transaction
UpdateCommit ==
    /\ ~lock
    /\ ncycle > 0
    /\ LET got == HandlerSubnets(subnetsCache, feeds, clock)
       IN  /\ \E probed \in ProbeOutcomes(fleet) :
                  db' = CommitRows(fleet, probed, got.subnets)
           /\ subnetsCache' = got.cache
    /\ side' = HandlerSide(side, db', ncycle)
    /\ lock' = TRUE
    /\ upd' = 1
    /\ ncycle' = ncycle - 1
    /\ UNCHANGED <<inv, fan, geoReq, feeds, flapCache, geoCache, clock, tx, seen, call, config, fleet, listCache, ipCache, resp, vcall, nreq>>

\* the cache after refresh_mirrors_cache(*args) for the k-th and the later
\* argument tuples of the warm-up loop
RECURSIVE RefreshFrom(_, _, _)
RefreshFrom(lc, rows, k) ==
    IF k > Len(ProductFlags) THEN lc
    ELSE RefreshFrom(refresh_mirrors_cache(lc, rows, ProductFlags[k]), rows, k + 1)

\* the rest of update_mirrors_handler: the warm-up loop over the sixteen
\* filter combinations, then the removal of the lock file
UpdateRefresh ==
    /\ upd = 1
    /\ listCache' = RefreshFrom(listCache, db, 1)
    /\ upd' = 0
    /\ lock' = FALSE
    /\ UNCHANGED <<inv, fan, geoReq, side, feeds, subnetsCache, flapCache, geoCache, clock, tx, seen, call, config, fleet, db, ipCache, resp, vcall, nreq, ncycle>>

\* a per-IP entry reaches its TTL (CACHE_EXPIRED_TIME)
ExpireIpCache ==
    /\ \E e \in ipCache : ipCache' = ipCache \ {e}
    /\ UNCHANGED <<inv, fan, geoReq, side, feeds, subnetsCache, flapCache, geoCache, clock, tx, seen, call, config, fleet, db, listCache, lock, upd, resp, vcall, nreq, ncycle>>

\* a direct call of get_allowed_version
CallGetAllowedVersion(version) ==
    /\ vcall' = [version |-> version, called |-> TRUE,
                 result |-> get_allowed_version(config.versions,
                                                config.vault_versions,
                                                config.duplicated_versions,
                                                version)]
    /\ UNCHANGED <<inv, fan, geoReq, side, feeds, subnetsCache, flapCache, geoCache, clock, tx, seen, call, config, fleet, db, listCache, ipCache, lock, upd, resp, nreq, ncycle>>

\* The rows a connection of the store reads while a session is open: the
\* committed rows.  What a session deleted and added is its own until
\* session_scope commits it.
ReadUncommitted(committed, session) ==
    IF session.open THEN Take(session.target, session.n) ELSE committed
VisibleRows(committed, session) == committed

\* update_mirrors_handler up to the opening of the session: the lock file
\* is taken, every mirror is probed, the session deletes all rows
TxBegin ==
    /\ ~lock
    /\ ncycle > 0
    /\ ~tx.open
    /\ LET got == HandlerSubnets(subnetsCache, feeds, clock)
       IN  /\ \E probed \in ProbeOutcomes(fleet) :
                  tx' = [open |-> TRUE,
                         target |-> CommitRows(fleet, probed, got.subnets),
                         n |-> 0]
           /\ subnetsCache' = got.cache
    /\ lock' = TRUE
    /\ ncycle' = ncycle - 1
    /\ UNCHANGED <<inv, fan, geoReq, side, feeds, flapCache, geoCache, clock, seen, call, config, fleet, db, listCache, ipCache, upd, resp,
                   vcall, nreq>>

\* db_session.add(mirror_to_create) for the next mirror of the loop
TxInsert ==
    /\ tx.open
    /\ tx.n < Len(tx.target)
    /\ tx' = [tx EXCEPT !.n = @ + 1]
    /\ UNCHANGED <<inv, fan, geoReq, side, feeds, subnetsCache, flapCache, geoCache, clock, seen, call, config, fleet, db, listCache, ipCache, lock, upd,
                   resp, vcall, nreq, ncycle>>

\* the end of the with block: session.commit()
TxCommit ==
    /\ tx.open
    /\ tx.n = Len(tx.target)
    /\ db' = tx.target
    /\ side' = HandlerSide(side, tx.target, ncycle + 1)
    /\ tx' = NoTx
    /\ upd' = 1
    /\ UNCHANGED <<inv, fan, geoReq, feeds, subnetsCache, flapCache, geoCache, clock, seen, call, config, fleet, listCache, ipCache, lock, resp,
                   vcall, nreq, ncycle>>

\* a reader runs the filtered query get_all_mirrors_db; old and new are the
\* MirrorSet committed before it and the one the open session will commit
ReadStore(f) ==
    /\ nreq > 0
    /\ seen' = [done |-> TRUE, flags |-> f,
                rows |-> get_all_mirrors_db(VisibleRows(db, tx), f),
                old |-> db, new |-> IF tx.open THEN tx.target ELSE db]
    /\ nreq' = nreq - 1
    /\ UNCHANGED <<inv, fan, geoReq, side, feeds, subnetsCache, flapCache, geoCache, clock, tx, call, config, fleet, db, listCache, ipCache, lock, upd,
                   resp, vcall, ncycle>>

\* The update script (update_mirrors.py): the declarations are loaded, every
\* mirror is checked, and all of them are committed with their status.  An
\* exception of the loader or of the commit leaves the store as it was.
ScriptUpdate ==
    /\ ncycle > 0
    /\ upd = 0
    /\ LET load   == get_mirrors_info(fleet)
           got    == IF load.raised # ""
                     THEN [subnets |-> <<>>, cache |-> subnetsCache]
                     ELSE ScriptSubnets(subnetsCache, feeds, clock)
           run    == IF load.raised # ""
                     THEN [rows |-> <<>>, probes |-> <<>>, fc |-> flapCache,
                           gc |-> geoCache]
                     ELSE CheckAll(load.result, got.subnets, flapCache,
                                   geoCache, clock)
           raised == IF load.raised # "" THEN load.raised
                     ELSE IF CommitRaises(run.rows) THEN "ValueError" ELSE ""
       IN  /\ db' = IF load.raised # "" THEN db
                    ELSE session_scope(db, run.rows, CommitRaises(run.rows))
           /\ side' = IF load.raised # "" THEN side
                      ELSE session_scope(side,
                                         ScriptSide(side, load.result, run.rows, ncycle),
                                         CommitRaises(run.rows))
           /\ flapCache' = run.fc
           /\ geoCache' = run.gc
           /\ subnetsCache' = got.cache
           /\ upd' = IF raised # "" THEN 0 ELSE 1
           /\ call' = [fn |-> "update_mirrors_handler", raised |-> raised,
                       loaded |-> load.result, checked |-> run.rows,
                       probes |-> run.probes]
    /\ clock' = clock + 1
    /\ ncycle' = ncycle - 1
    /\ UNCHANGED <<inv, fan, geoReq, feeds, tx, seen, config, fleet, listCache, ipCache, lock, resp, vcall, nreq>>

\* a direct call of get_mirrors_info on the declarations
CallGetMirrorsInfo ==
    /\ nreq > 0
    /\ LET load == get_mirrors_info(fleet)
       IN  call' = [fn |-> "get_mirrors_info", raised |-> load.raised,
                    result |-> load.result]
    /\ nreq' = nreq - 1
    /\ UNCHANGED <<inv, fan, geoReq, side, feeds, subnetsCache, flapCache, geoCache, clock, tx, seen, config, fleet, db, listCache, ipCache, lock, upd, resp, vcall, ncycle>>

\* a direct call of set_status_of_mirror on the i-th loaded mirror, which
\* resolved, with the flap cache as it is
CallSetStatus(i) ==
    /\ nreq > 0
    /\ LET load == get_mirrors_info(fleet)
       IN  /\ load.raised = ""
           /\ i \in 1..Len(load.result)
           /\ LET mirror_info == load.result[i]
                  flap == cache_get(flapCache, mirror_info.name, clock)
                  stat == set_status_of_mirror(mirror_info, mirror_info.answers,
                                               flap, clock)
              IN  /\ call' = [fn |-> "set_status_of_mirror",
                              mirror_info |-> mirror_info, flap |-> flap,
                              now |-> clock, status |-> stat.status,
                              probes |-> stat.probes]
                  /\ flapCache' = IF stat.flap # flap
                                  THEN cache_set(flapCache, mirror_info.name,
                                                 stat.flap, clock)
                                  ELSE flapCache
    /\ nreq' = nreq - 1
    /\ UNCHANGED <<inv, fan, geoReq, side, feeds, subnetsCache, geoCache, clock, tx, seen, config, fleet, db, listCache, ipCache, lock, upd, resp, vcall, ncycle>>

\* two computations of _get_nearest_mirrors_by_geo_data for one client on
\* the same filtered list; each takes the list from get_all_mirrors
CallNearestTwice(ip_address, f) ==
    /\ nreq > 0
    /\ upd = 0
    /\ LET lc1 == get_all_mirrors_cache(listCache, db, f)
           outcomes == UNION {get_nearest_mirrors_by_geo_data(ip_address, m) :
                              m \in get_all_mirrors(listCache, db, f)}
       IN  /\ \E first \in outcomes, second \in outcomes :
                  call' = [fn |-> "get_nearest_mirrors_by_geo_data",
                           ip |-> ip_address, flags |-> f,
                           first |-> first, second |-> second]
           /\ listCache' = lc1
    /\ nreq' = nreq - 1
    /\ UNCHANGED <<inv, fan, geoReq, side, feeds, subnetsCache, flapCache, geoCache, clock, tx, seen, config, fleet, db, ipCache, lock, upd, resp, vcall, ncycle>>

\* a direct call of _get_request_ip for a request with these headers
CallGetRequestIp(test_ip_address, forwarded_for, real_ip, remote_addr) ==
    /\ nreq > 0
    /\ LET got == get_request_ip(test_ip_address, forwarded_for, real_ip,
                                remote_addr)
       IN  call' = [fn |-> "_get_request_ip", test |-> test_ip_address,
                    forwarded_for |-> forwarded_for, real_ip |-> real_ip,
                    remote_addr |-> remote_addr, raised |-> got.raised,
                    result |-> got.result]
    /\ nreq' = nreq - 1
    /\ UNCHANGED <<inv, fan, geoReq, side, feeds, subnetsCache, flapCache, geoCache, clock, tx, seen, config, fleet, db, listCache, ipCache, lock, upd, resp, vcall, ncycle>>

\* a direct call of get_<provider>_subnets with the cache and the documents
\* as they are
CallGetSubnets(provider) ==
    /\ nreq > 0
    /\ LET got == CASE provider = "aws" ->
                        get_aws_subnets(subnetsCache, feeds.aws, clock)
                     [] provider = "gcp" ->
                        get_gcp_subnets(subnetsCache, feeds.gcp, clock)
                     [] provider = "oci" ->
                        get_oci_subnets(subnetsCache, feeds.oci, clock)
                     [] provider = "azure" ->
                        get_azure_subnets(subnetsCache, feeds.azure, clock)
       IN  /\ call' = [fn |-> "get_subnets", provider |-> provider,
                       now |-> clock, result |-> got.subnets]
           /\ subnetsCache' = got.cache
    /\ nreq' = nreq - 1
    /\ UNCHANGED <<inv, fan, geoReq, side, feeds, flapCache, geoCache, clock, tx, seen, config, fleet, db, listCache, ipCache, lock, upd, resp, vcall, ncycle>>

\* the document of a provider stops being served, or is served again
FeedChange(provider) ==
    /\ feeds' = [feeds EXCEPT ![provider] =
                     IF @ = Unavailable THEN Published[provider]
                     ELSE Unavailable]
    /\ UNCHANGED <<inv, fan, geoReq, side, subnetsCache, flapCache, geoCache, clock, tx, seen, call, config, fleet, db, listCache, ipCache, lock, upd, resp, vcall, nreq, ncycle>>

\* half the lifetime of a cached map passes
HalfTtl ==
    /\ clock + SUBNETS_EXPIRED_TIME \div 2 <= Now + MaxFeedTime
    /\ clock' = clock + SUBNETS_EXPIRED_TIME \div 2
    /\ UNCHANGED <<inv, fan, geoReq, side, feeds, subnetsCache, flapCache, geoCache, tx, seen, call, config, fleet, db, listCache, ipCache, lock, upd, resp, vcall, nreq, ncycle>>

---------------------------------------------------------------------------
(* Specifications.                                                         *)

\* nreq and ncycle count the requests and the update cycles still to come
\* no fan-out has been started
NoFan == [tasks |-> <<>>, pending |-> {}, free |-> 0, pc |-> "idle",
          ret |-> [result |-> TRUE, reason |-> <<>>], kind |-> ""]

\* no concurrent call of update_mirrors_handler is modelled
NoInvocations == <<>>

\* the tables next to Mirror are empty
NoSide == [url |-> <<>>, module_url |-> <<>>, subnet |-> <<>>, subnet_int |-> <<>>]

---------------------------------------------------------------------------
(* A client request that refills a missing mirrors-list entry, in the two  *)
(* steps of refresh_mirrors_cache (handlers.py:409-479).                   *)

\* get_all_mirrors finds no list under the key (no entry, or an empty list)
\* and refresh_mirrors_cache runs its filtered query on the store
RefillRead(f) ==
    /\ nreq > 0
    /\ ~seen.done
    /\ LET first == get_mirror_list(listCache, f)
       IN  ~first.found \/ first.data = <<>>
    /\ seen' = [done |-> TRUE, flags |-> f,
                rows |-> get_all_mirrors_db(VisibleRows(db, tx), f),
                old |-> db, new |-> IF tx.open THEN tx.target ELSE db]
    /\ nreq' = nreq - 1
    /\ UNCHANGED <<inv, fan, geoReq, side, feeds, subnetsCache, flapCache, geoCache, clock, tx,
                   call, config, fleet, db, listCache, ipCache, lock, upd, resp,
                   vcall, ncycle>>

\* refresh_mirrors_cache writes the list it queried: set_mirror_list
RefillWrite ==
    /\ seen.done
    /\ listCache' = set_mirror_list(listCache, seen.rows, seen.flags)
    /\ seen' = NoRead
    /\ UNCHANGED <<inv, fan, geoReq, side, feeds, subnetsCache, flapCache, geoCache, clock, tx,
                   call, config, fleet, db, ipCache, lock, upd, resp, vcall, nreq,
                   ncycle>>

\* an entry reaches MIRRORS_LIST_EXPIRED_TIME and is gone
ListExpire(f) ==
    /\ get_mirror_list(listCache, f).found
    /\ listCache' = {e \in listCache : e.key # RedisKey(f)}
    /\ UNCHANGED <<inv, fan, geoReq, side, feeds, subnetsCache, flapCache, geoCache, clock, tx,
                   seen, call, config, fleet, db, ipCache, lock, upd, resp, vcall,
                   nreq, ncycle>>

---------------------------------------------------------------------------
(* The declaration of a mirror is edited between two cycles.               *)

Redeclare(yaml_data) ==
    /\ nreq > 0
    /\ upd = 0
    /\ fleet # <<>>
    /\ yaml_data # fleet[1]
    /\ fleet' = [fleet EXCEPT ![1] = yaml_data]
    /\ nreq' = nreq - 1
    /\ UNCHANGED <<inv, fan, geoReq, side, feeds, subnetsCache, flapCache, geoCache, clock, tx,
                   seen, call, config, db, listCache, ipCache, lock, upd, resp,
                   vcall, ncycle>>

---------------------------------------------------------------------------
(* get_mirror_url called directly.                                         *)

CallGetMirrorUrl(protocols, urls) ==
    /\ nreq > 0
    /\ LET found == get_mirror_url(protocols, urls)
       IN  call' = [fn |-> "get_mirror_url", protocols |-> protocols,
                    urls |-> urls, raised |-> found.raised, url |-> found.url]
    /\ nreq' = nreq - 1
    /\ UNCHANGED <<inv, fan, geoReq, side, feeds, subnetsCache, flapCache, geoCache, clock, tx,
                   seen, config, fleet, db, listCache, ipCache, lock, upd, resp,
                   vcall, ncycle>>

---------------------------------------------------------------------------
(* GeoLocationData and the offline GeoIP step (data_models.py:39-73,       *)
(* mirror_processor.py:187-232).  A field holds a string; NoneValue stands *)
(* for Python's None.                                                      *)

NoneValue == "<None>"

GeoFields == {"continent", "country", "state_province", "city"}

\* GeoLocationData(): every field is 'Unknown' by default
GeoLocationData ==
    [continent |-> "Unknown", country |-> "Unknown",
     state_province |-> "Unknown", city |-> "Unknown"]

geo_setattr_overwrite(existing, value) == value

\* GeoLocationData.__setattr__ on a field the object already has: the value
\* is stored only over 'Unknown' or None
geo_setattr(existing, value) ==
    IF existing \in {"Unknown", NoneValue} THEN value ELSE existing

\* GeoLocationData.update_from_existing_object: four attribute assignments
update_from_existing_object(self, geo_location_data) ==
    [f \in GeoFields |-> geo_setattr(self[f], geo_location_data[f])]

\* the tuple assignment of a GeoIP match onto a fresh GeoLocationData: every
\* default is 'Unknown', so every value of the match is stored
FromMatch(match) ==
    IF match.found
    THEN update_from_existing_object(GeoLocationData,
             [continent |-> match.continent, country |-> match.country,
              state_province |-> match.state, city |-> match.city])
    ELSE GeoLocationData

\* str.upper() and len() on the country values of the model
Upper(text) == IF text = "de" THEN "DE" ELSE IF text = "fr" THEN "FR" ELSE text
TwoLetters == {"de", "DE", "fr", "FR"}

\* pycountry's countries.get(name=...): the record of a known name; an
\* unknown name ends in the except LookupError branch
countries_get(name) ==
    IF name = "Germany" THEN [found |-> TRUE, alpha_2 |-> "DE"]
    ELSE IF name = "France" THEN [found |-> TRUE, alpha_2 |-> "FR"]
    ELSE [found |-> FALSE, alpha_2 |-> ""]

\* the try block that ends set_geo_and_location_data_from_db: it writes
\* __dict__['country'] directly, past __setattr__
normalize_country(country) ==
    IF country = "Unknown" THEN country
    ELSE IF country \in TwoLetters THEN Upper(country)
    ELSE IF countries_get(country).found THEN countries_get(country).alpha_2
    ELSE country

\* set_geo_and_location_data_from_db on the geolocation of a mirror
set_geo_and_location_data_from_db(geolocation, match) ==
    LET merged == update_from_existing_object(geolocation, FromMatch(match))
    IN  [merged EXCEPT !.country = normalize_country(merged.country)]

\* A direct call of the GeoIP step on a mirror whose geolocation block is
\* yaml; the call also records what merging the same data again gives.
CallSetGeo(yaml, match) ==
    /\ nreq > 0
    /\ LET new == FromMatch(match)
           merged == update_from_existing_object(yaml, new)
       IN  call' = [fn |-> "set_geo_and_location_data_from_db", yaml |-> yaml,
                    new |-> new, merged |-> merged,
                    twice |-> update_from_existing_object(merged, new),
                    geolocation |-> set_geo_and_location_data_from_db(yaml, match)]
    /\ nreq' = nreq - 1
    /\ UNCHANGED <<inv, fan, geoReq, side, feeds, subnetsCache, flapCache, geoCache, clock, tx,
                   seen, config, fleet, db, listCache, ipCache, lock, upd, resp,
                   vcall, ncycle>>

\* A direct call of randomize_mirrors_within_distance on the list that
\* sort_mirrors_by_distance_and_country returns for a client at request_lat
CallRandomize(request_lat, mirrors, country) ==
    /\ nreq > 0
    /\ LET sorted == sort_mirrors_by_distance_and_country(request_lat, mirrors,
                                                          country)
       IN  \E result \in randomize_mirrors_within_distance(sorted, country) :
               call' = [fn |-> "randomize_mirrors_within_distance",
                        lat |-> request_lat, country |-> country,
                        sorted |-> sorted, result |-> result]
    /\ nreq' = nreq - 1
    /\ UNCHANGED <<inv, fan, geoReq, side, feeds, subnetsCache, flapCache, geoCache, clock, tx,
                   seen, config, fleet, db, listCache, ipCache, lock, upd, resp,
                   vcall, ncycle>>

\* A direct call of the test of the network-affinity loop for a client
\* without a subnet match: the mirror is the cached row of a mirror that
\* declares the ASNs declared, committed with asn=','.join(mirror_info.asn)
CallAsnMatch(asn, declared) ==
    /\ nreq > 0
    /\ LET mirror == [asn |-> JoinComma(declared), subnets |-> <<>>]
       IN  call' = [fn |-> "asn in mirror.asn", asn |-> asn,
                    declared |-> declared, stored |-> mirror.asn,
                    matched |-> IsNetworkMatch(mirror, NoIp, asn)]
    /\ nreq' = nreq - 1
    /\ UNCHANGED <<inv, fan, geoReq, side, feeds, subnetsCache, flapCache, geoCache, clock, tx,
                   seen, config, fleet, db, listCache, ipCache, lock, upd, resp,
                   vcall, ncycle>>

---------------------------------------------------------------------------
(* Concurrent calls of update_mirrors_handler (handlers.py:236-406), each  *)
(* POST /update_mirrors running the coroutine of its own request           *)
(* (utilities.py:36-45).  inv[i] is the position of call i.                *)

MaxInvocations == 2

keep_pid_file(exists) == exists

\* the finally block: os.remove(pid_file_path) if the file exists
remove_pid_file(exists) == FALSE

SetInv(i, pc) == [inv EXCEPT ![i] = pc]

\* a POST /update_mirrors arrives
HandlerArrive ==
    /\ Len(inv) < MaxInvocations
    /\ inv' = Append(inv, "start")
    /\ UNCHANGED <<fan, geoReq, side, feeds, subnetsCache, flapCache, geoCache, clock, tx,
                   seen, call, config, fleet, db, listCache, ipCache, lock, upd, resp,
                   vcall, nreq, ncycle>>

\* if pid_file_path.exists(): return 'Update is already running'
HandlerCheckPid(i) ==
    /\ i <= Len(inv) /\ inv[i] = "start"
    /\ inv' = SetInv(i, IF lock THEN "already running" ELSE "checked")
    /\ UNCHANGED <<fan, geoReq, side, feeds, subnetsCache, flapCache, geoCache, clock, tx,
                   seen, call, config, fleet, db, listCache, ipCache, lock, upd, resp,
                   vcall, nreq, ncycle>>

\* pid_file_path.write_text(str(os.getpid())), the first statement of try
HandlerWritePid(i) ==
    /\ i <= Len(inv) /\ inv[i] = "checked"
    /\ lock' = TRUE
    /\ inv' = SetInv(i, "probing")
    /\ UNCHANGED <<fan, geoReq, side, feeds, subnetsCache, flapCache, geoCache, clock, tx,
                   seen, call, config, fleet, db, listCache, ipCache, upd, resp,
                   vcall, nreq, ncycle>>

\* the probes and the commit of the rows
HandlerProbeAndCommit(i) ==
    /\ i <= Len(inv) /\ inv[i] = "probing"
    /\ LET got == HandlerSubnets(subnetsCache, feeds, clock)
       IN  /\ \E probed \in ProbeOutcomes(fleet) :
                  db' = CommitRows(fleet, probed, got.subnets)
           /\ subnetsCache' = got.cache
    /\ side' = HandlerSide(side, db', i)
    /\ inv' = SetInv(i, "committed")
    /\ UNCHANGED <<fan, geoReq, feeds, flapCache, geoCache, clock, tx, seen, call, config,
                   fleet, listCache, ipCache, lock, upd, resp, vcall, nreq, ncycle>>

\* an exception raised while probing or committing leaves the store as it
\* was (session_scope) and goes to the finally block
HandlerRaise(i) ==
    /\ i <= Len(inv) /\ inv[i] = "probing"
    /\ inv' = SetInv(i, "raised")
    /\ UNCHANGED <<fan, geoReq, side, feeds, subnetsCache, flapCache, geoCache, clock, tx,
                   seen, call, config, fleet, db, listCache, ipCache, lock, upd, resp,
                   vcall, nreq, ncycle>>

\* the warm-up loop over the sixteen filter combinations
HandlerRefresh(i) ==
    /\ i <= Len(inv) /\ inv[i] = "committed"
    /\ listCache' = RefreshFrom(listCache, db, 1)
    /\ inv' = SetInv(i, "refreshed")
    /\ UNCHANGED <<fan, geoReq, side, feeds, subnetsCache, flapCache, geoCache, clock, tx,
                   seen, call, config, fleet, db, ipCache, lock, upd, resp, vcall,
                   nreq, ncycle>>

\* finally: the lock file is removed if it exists; then return 'Done', or
\* the exception goes on to the caller
HandlerFinally(i) ==
    /\ i <= Len(inv) /\ inv[i] \in {"refreshed", "raised"}
    /\ lock' = remove_pid_file(lock)
    /\ inv' = SetInv(i, IF inv[i] = "raised" THEN "failed" ELSE "Done")
    /\ UNCHANGED <<fan, geoReq, side, feeds, subnetsCache, flapCache, geoCache, clock, tx,
                   seen, call, config, fleet, db, listCache, ipCache, upd, resp,
                   vcall, nreq, ncycle>>

---------------------------------------------------------------------------
(* A mirror that comes back between two runs of the update script.         *)

\* the answers of a mirror that serves everything the status step asks for
HealthyAnswers ==
    Answers(TRUE, TRUE, Number(Now - 1), <<TRUE, TRUE>>, 52, TRUE, 53)

\* The first mirror becomes healthy: from now on its name resolves, its URL
\* and its repodata answer and its TIME file is fresh.  It happens while the
\* runs that are left still cover one FLAPPED_EXPIRED_TIME.
MirrorRecovers ==
    /\ ncycle >= FLAPPED_EXPIRED_TIME
    /\ fleet # <<>>
    /\ fleet[1].answers # HealthyAnswers
    /\ fleet' = [fleet EXCEPT ![1].answers = HealthyAnswers]
    /\ UNCHANGED <<inv, fan, geoReq, side, feeds, subnetsCache, flapCache, geoCache, clock, tx, seen, call, config, db, listCache, ipCache, lock, upd, resp, vcall, nreq, ncycle>>

---------------------------------------------------------------------------
(* A fan-out of probe tasks and the check_tasks that awaits them           *)
(* (utils.py:122-184).  A task is an is_url_available coroutine wrapped    *)
(* by asyncio.ensure_future; the event loop runs each of its steps.        *)

MaxTasks == 4

iso_semaphore == 3
mirror_availability_semaphore == 5

FanKinds == {"iso", "repo"}

\* Semaphore(n) of the fan-out
Permits(kind) == IF kind = "iso" THEN iso_semaphore ELSE mirror_availability_semaphore

\* what the server does with the request of a task: "" is a 2xx answer,
\* anything else an error status
ProbeAnswers == {"", "404"}

\* str(err) of the error of request i: aiohttp puts the status and the URL of
\* the request into the text; None for no error
ErrorText(answer, i) == IF answer = "" THEN <<>> ELSE <<answer, i>>

CancelledText == <<"CancelledError">>

Finished(task) == task.st \in {"done", "cancelled"}

NewTask(answer) ==
    [st |-> "new", answer |-> answer, must_cancel |-> FALSE,
     result |-> TRUE, reason |-> <<>>]

\* the task list of no probes
NoTasks == <<>>

\* asyncio.wait raises ValueError for an empty set of tasks
WaitRaises(tasks) == Len(tasks) = 0

\* tasks = [ensure_future(is_url_available(..., sem)) ...] followed by
\* await check_tasks(tasks): the first asyncio.wait starts
StartFanOut(kind, answers) ==
    /\ fan.pc = "idle"
    /\ fan' = [tasks   |-> [i \in 1..Len(answers) |-> NewTask(answers[i])],
               pending |-> 1..Len(answers),
               free    |-> Permits(kind),
               pc      |-> IF WaitRaises(answers) THEN "raised" ELSE "waiting",
               ret     |-> [result |-> TRUE, reason |-> <<>>],
               kind    |-> kind]
    /\ UNCHANGED <<inv, geoReq, side, feeds, subnetsCache, flapCache, geoCache, clock, tx, seen,
                   call, config, fleet, db, listCache, ipCache, lock, upd, resp,
                   vcall, nreq, ncycle>>

\* tasks run their first step in the order of their creation
FirstNew(tasks) ==
    IF \E i \in 1..Len(tasks) : tasks[i].st = "new"
    THEN CHOOSE i \in 1..Len(tasks) :
             /\ tasks[i].st = "new"
             /\ \A j \in 1..(i - 1) : tasks[j].st # "new"
    ELSE 0

\* the semaphore wakes its waiters in the order of their arrival
FirstWaiting(tasks) ==
    IF \E i \in 1..Len(tasks) : tasks[i].st = "waiting"
    THEN CHOOSE i \in 1..Len(tasks) :
             /\ tasks[i].st = "waiting"
             /\ \A j \in 1..(i - 1) : tasks[j].st # "waiting"
    ELSE 0

\* The first step of is_url_available: the task enters "async with sem" and
\* sends the request when a permit is free, or queues.  The event loop runs
\* the first step of every task before any request can end.
TaskRun ==
    LET i == FirstNew(fan.tasks)
    IN  /\ i > 0
        /\ fan' = IF fan.free > 0
                  THEN [fan EXCEPT !.tasks[i].st = "requesting",
                                   !.free = fan.free - 1]
                  ELSE [fan EXCEPT !.tasks[i].st = "waiting"]
        /\ UNCHANGED <<inv, geoReq, side, feeds, subnetsCache, flapCache, geoCache, clock, tx,
                       seen, call, config, fleet, db, listCache, ipCache, lock, upd,
                       resp, vcall, nreq, ncycle>>

\* A queued task gets a permit and sends its request; a cancelled one gets
\* CancelledError at sem.acquire(), outside the try of is_url_available.
TaskAcquire ==
    LET i == FirstWaiting(fan.tasks)
    IN  /\ i > 0
        /\ \/ /\ fan.tasks[i].must_cancel
              /\ fan' = [fan EXCEPT !.tasks[i].st = "cancelled"]
           \/ /\ ~fan.tasks[i].must_cancel
              /\ fan.free > 0
              /\ fan' = [fan EXCEPT !.tasks[i].st = "requesting",
                                    !.free = fan.free - 1]
        /\ UNCHANGED <<inv, geoReq, side, feeds, subnetsCache, flapCache, geoCache, clock, tx,
                       seen, call, config, fleet, db, listCache, ipCache, lock, upd,
                       resp, vcall, nreq, ncycle>>

\* The request of a task ends: (True, None) for a 2xx answer, (False, str(err))
\* for an error, and (False, str) for the CancelledError that a cancelled
\* task receives inside the try.  The permit is released on the way out.
TaskFinish(i) ==
    /\ i \in 1..Len(fan.tasks)
    /\ fan.tasks[i].st = "requesting"
    /\ FirstNew(fan.tasks) = 0
    /\ LET task == fan.tasks[i]
           reason == IF task.must_cancel THEN CancelledText
                     ELSE ErrorText(task.answer, i)
       IN  fan' = [fan EXCEPT !.tasks[i].st = "done",
                              !.tasks[i].result = (reason = <<>>),
                              !.tasks[i].reason = reason,
                              !.free = fan.free + 1]
    /\ UNCHANGED <<inv, geoReq, side, feeds, subnetsCache, flapCache, geoCache, clock, tx, seen,
                   call, config, fleet, db, listCache, ipCache, lock, upd, resp,
                   vcall, nreq, ncycle>>

\* a check_tasks that returns without cancelling
ReturnOnly(tasks, set) == tasks

\* task.cancel() for every task of the set: the task is marked, and gets
\* its CancelledError when the event loop runs it next
CancelAll(tasks, set) ==
    [i \in 1..Len(tasks) |->
        IF i \in set THEN [tasks[i] EXCEPT !.must_cancel = TRUE] ELSE tasks[i]]

\* check_tasks resumes from asyncio.wait(FIRST_COMPLETED) with the tasks that
\* are done by then.  The first negative result met in the done set (a set:
\* any of them) cancels the pending tasks and is returned; without one,
\* (True, None) is returned when nothing is pending, and check_tasks calls
\* itself with the pending tasks otherwise.
CheckTasksWake ==
    /\ fan.pc = "waiting"
    /\ LET done_tasks    == {i \in fan.pending : Finished(fan.tasks[i])}
           pending_tasks == fan.pending \ done_tasks
           negative      == {i \in done_tasks : ~fan.tasks[i].result}
       IN  /\ done_tasks # {}
           /\ IF negative # {}
              THEN \E i \in negative :
                       fan' = [fan EXCEPT
                                 !.tasks = CancelAll(fan.tasks, pending_tasks),
                                 !.pending = pending_tasks,
                                 !.pc = "returned",
                                 !.ret = [result |-> FALSE,
                                          reason |-> fan.tasks[i].reason]]
              ELSE IF pending_tasks = {}
              THEN fan' = [fan EXCEPT !.pending = {}, !.pc = "returned",
                                      !.ret = [result |-> TRUE, reason |-> <<>>]]
              ELSE fan' = [fan EXCEPT !.pending = pending_tasks]
    /\ UNCHANGED <<inv, geoReq, side, feeds, subnetsCache, flapCache, geoCache, clock, tx, seen,
                   call, config, fleet, db, listCache, ipCache, lock, upd, resp,
                   vcall, nreq, ncycle>>

---------------------------------------------------------------------------
(* The check_mirror tasks of one cycle of the update script, run              *)
(* concurrently by asyncio.gather (update_mirrors.py:80-119, 222-260).     *)

mirror_check_sem == 100

\* a check_mirror task that is not holding mirror_check_sem yet
QueuedTask == [pc |-> "queued", row |-> <<>>]

InsideCheck(tasks) ==
    Cardinality({i \in 1..Len(tasks) : tasks[i].pc \in {"checking", "geocoder"}})

\* update_mirrors_handler up to asyncio.gather(*tasks): the declarations are
\* loaded, the subnets fetched and one check_mirror task is made per mirror
GatherStart ==
    /\ ncycle > 0
    /\ upd = 0
    /\ geoReq = <<>>
    /\ LET load == get_mirrors_info(fleet)
           got  == IF load.raised # ""
                   THEN [subnets |-> <<>>, cache |-> subnetsCache]
                   ELSE ScriptSubnets(subnetsCache, feeds, clock)
       IN  /\ geoReq' = [i \in 1..Len(load.result) |-> QueuedTask]
           /\ subnetsCache' = got.cache
           /\ call' = [fn |-> "gather", raised |-> load.raised,
                       loaded |-> load.result]
    /\ ncycle' = ncycle - 1
    /\ UNCHANGED <<inv, fan, side, feeds, flapCache, geoCache, clock, tx, seen, config, fleet,
                   db, listCache, ipCache, lock, upd, resp, vcall, nreq>>

\* check_mirror: async with mirror_check_sem
CheckMirrorEnter(i) ==
    /\ i \in 1..Len(geoReq)
    /\ geoReq[i].pc = "queued"
    /\ InsideCheck(geoReq) < mirror_check_sem
    /\ geoReq' = [geoReq EXCEPT ![i].pc = "checking"]
    /\ UNCHANGED <<inv, fan, side, feeds, subnetsCache, flapCache, geoCache, clock, tx, seen,
                   call, config, fleet, db, listCache, ipCache, lock, upd, resp,
                   vcall, nreq, ncycle>>

\* check_mirror up to the request of set_location_data_from_online_service:
\* the task sends the request when the mirror is ok, has a place and the
\* geocoder cache has no entry for it; nothing else is waited for
GeocoderBegin(i) ==
    /\ i \in 1..Len(geoReq)
    /\ geoReq[i].pc = "checking"
    /\ LET run == check_mirror(call.loaded[i],
                               ScriptSubnets(subnetsCache, feeds, clock).subnets,
                               flapCache, geoCache, clock)
       IN  /\ geoReq' = [geoReq EXCEPT
                           ![i] = [pc  |-> IF "geocoder" \in run.probes
                                           THEN "geocoder" ELSE "done",
                                   row |-> run.row]]
           /\ flapCache' = run.fc
    /\ UNCHANGED <<inv, fan, side, feeds, subnetsCache, geoCache, clock, tx, seen, call, config,
                   fleet, db, listCache, ipCache, lock, upd, resp, vcall, nreq,
                   ncycle>>

\* the geocoder answers: a place found is written to the cache
GeocoderEnd(i) ==
    /\ i \in 1..Len(geoReq)
    /\ geoReq[i].pc = "geocoder"
    /\ LET info == call.loaded[i]
       IN  geoCache' = IF info.answers.geocoder # 0
                       THEN [geoCache EXCEPT ![info.name] = info.answers.geocoder]
                       ELSE geoCache
    /\ geoReq' = [geoReq EXCEPT ![i].pc = "done"]
    /\ UNCHANGED <<inv, fan, side, feeds, subnetsCache, flapCache, clock, tx, seen, call, config,
                   fleet, db, listCache, ipCache, lock, upd, resp, vcall, nreq,
                   ncycle>>

\* asyncio.gather returns when every task is done; the rows are committed
GatherEnd ==
    /\ geoReq # <<>>
    /\ \A i \in 1..Len(geoReq) : geoReq[i].pc = "done"
    /\ LET rows == [i \in 1..Len(geoReq) |-> geoReq[i].row]
       IN  /\ db' = session_scope(db, rows, CommitRaises(rows))
           /\ side' = session_scope(side,
                                    ScriptSide(side, call.loaded, rows, ncycle + 1),
                                    CommitRaises(rows))
           /\ upd' = IF CommitRaises(rows) THEN 0 ELSE 1
    /\ geoReq' = <<>>
    /\ clock' = clock + 1
    /\ UNCHANGED <<inv, fan, feeds, subnetsCache, flapCache, geoCache, tx, seen, call,
                   config, fleet, listCache, ipCache, lock, resp, vcall, nreq,
                   ncycle>>

InitWith(cfgs, decls, requests, cycles) ==
    /\ config \in cfgs
    /\ fleet = decls
    /\ db = <<>>
    /\ listCache = {}
    /\ ipCache = {}
    /\ lock = FALSE
    /\ upd = 0
    /\ resp = NoResp
    /\ vcall = NoCall
    /\ nreq = requests
    /\ ncycle = cycles
    /\ tx = NoTx
    /\ seen = NoRead
    /\ call = NoDirectCall
    /\ flapCache = <<>>
    /\ geoCache = <<>>
    /\ clock = Now
    /\ feeds = Published
    /\ subnetsCache = [key \in SubnetKeys |-> NoSubnets]
    /\ fan = NoFan
    /\ geoReq = <<>>
    /\ side = NoSide
    /\ inv = NoInvocations

\* The service with the small fleet.
Clients == {NoIp, IpInA, IpInM, IpGeo, IpAsn}
IsoClients == {NoIp, IpInA, IpInM}
CountryClients == {NoIp, IpGeo}
VaultClients == {NoIp, IpInA}

Query(version, arch, repository, iso_list) ==
    [version |-> version, arch |-> arch, repository |-> repository,
     iso_list |-> iso_list]

\* requests that end in the validation or in the vault branch
OtherQueries ==
    {Query(V7, NoArch, "BaseOS", FALSE), Query(V8, NoArch, "vault-extras", FALSE),
     Query(V10, NoArch, "BaseOS", FALSE), Query(V8, NoArch, "nope", FALSE),
     Query(V7, ArchX86, "", TRUE)}

Init == InitWith(ServiceConfigs, SmallFleet, MaxRequests, MaxCycles)

Next ==
    \/ \E ip \in Clients : Request(ip, V8, NoArch, "BaseOS", FALSE)
    \/ \E ip \in IsoClients : Request(ip, V9, ArchX86, "", TRUE)
    \/ \E ip \in VaultClients, q \in OtherQueries :
          Request(ip, q.version, q.arch, q.repository, q.iso_list)
    \/ \E ip \in CountryClients : RequestIsos(ip)
    \/ UpdateCommit
    \/ UpdateRefresh
    \/ ExpireIpCache

Spec == Init /\ [][Next]_vars

\* Direct calls of get_allowed_version over many configurations.
InitVersion == InitWith(VersionConfigs, <<>>, 0, 0)

NextVersion == \E version \in VersionInputs : CallGetAllowedVersion(version)

SpecVersion == InitVersion /\ [][NextVersion]_vars

\* The service with a fleet larger than the list limits.
BigClients == {IpFar, IpInA, IpGeo, IpCoarse, IpAsn}

InitBig == InitWith({MkConfig(<<V8, V89, V9>>, <<V7>>, <<<<V8, V89>>>>,
                              VaultMirrorSlash)}, BigFleet,
                    MaxRequests, MaxBigCycles)

NextBig ==
    \/ \E ip \in BigClients : Request(ip, V9, NoArch, "BaseOS", FALSE)
    \/ UpdateCommit
    \/ UpdateRefresh

SpecBig == InitBig /\ [][NextBig]_vars

\* The ISO scenario: one client asking for mirror lists and ISO lists.
IsoScenarioClients == {IpInA, IpInM}

InitIso == InitWith({MkConfig(<<V8, V89, V9>>, <<V7>>, <<<<V8, V89>>>>,
                              VaultMirrorNoSlash)}, SmallFleet,
                    MaxIsoRequests, MaxIsoCycles)

NextIso ==
    \/ \E ip \in IsoScenarioClients : Request(ip, V8, NoArch, "BaseOS", FALSE)
    \/ \E ip \in IsoScenarioClients : Request(ip, V9, ArchX86, "", TRUE)
    \/ \E ip \in IsoScenarioClients : Request(ip, V9, ArchSparc, "", TRUE)
    \/ \E ip \in IsoScenarioClients : RequestIsos(ip)
    \/ UpdateCommit
    \/ UpdateRefresh

SpecIso == InitIso /\ [][NextIso]_vars

\* The update cycle with the commit in steps, and readers of the store.
InitTx == InitWith(ServiceConfigs, SmallFleet, MaxTxReads, MaxTxCycles)

NextTx ==
    \/ TxBegin
    \/ TxInsert
    \/ TxCommit
    \/ UpdateRefresh
    \/ \E f \in {MirrorListFlags, IsoListFlags} : ReadStore(f)

SpecTx == InitTx /\ [][NextTx]_vars

\* The ordering scenario: a fleet with two mirrors in one city far from every
\* client, and clients in three countries.
OrderFleet ==
    << Decl("n1.example", Url("https:", "n1.example", <<>>),
            FALSE, FALSE, "", "", <<>>, <<>>, "NA", "US", 41, {"ok", "expired"}, TRUE),
       Decl("n2.example", Url("https:", "n2.example", <<>>),
            FALSE, FALSE, "", "", <<>>, <<>>, "NA", "US", 42, {"ok", "expired"}, TRUE),
       Decl("f1.example", Url("https:", "f1.example", <<>>),
            FALSE, FALSE, "", "", <<>>, <<>>, "NA", "US", 30, {"ok"}, TRUE),
       Decl("f2.example", Url("https:", "f2.example", <<>>),
            FALSE, FALSE, "", "", <<>>, <<>>, "NA", "US", 30, {"ok"}, TRUE),
       Decl("f3.example", Url("https:", "f3.example", <<>>),
            FALSE, FALSE, "", "", <<>>, <<>>, "NA", "US", 28, {"ok", "expired"}, TRUE),
       Decl("o1.example", Url("https:", "o1.example", <<>>),
            FALSE, FALSE, "", "", <<>>, <<>>, "EU", "DE", 51, {"ok", "expired"}, TRUE) >>

OrderClients == {IpGeo, IpInA, IpInM}

InitOrder == InitWith({MkConfig(<<V8, V89, V9>>, <<V7>>, <<<<V8, V89>>>>,
                                VaultMirrorSlash)}, OrderFleet,
                      MaxOrderCalls, MaxOrderCycles)

NextOrder ==
    \/ \E ip \in OrderClients : CallNearestTwice(ip, MirrorListFlags)
    \/ UpdateCommit
    \/ UpdateRefresh

SpecOrder == InitOrder /\ [][NextOrder]_vars

\* Direct calls of _get_request_ip: the header absent, with one value and
\* with two values, with and without TEST_IP_ADDRESS and X-Real-Ip.
HeaderAddrs ==
    {AddrText("198.51.100.7", TRUE, FALSE), AddrText("203.0.113.9", TRUE, FALSE),
     AddrText("10.0.0.5", TRUE, TRUE), AddrText("unknown", FALSE, FALSE)}
ForwardedFors ==
    {NoHeader} \cup {Header(<<a>>) : a \in HeaderAddrs}
               \cup {Header(<<a, b>>) : a \in HeaderAddrs, b \in HeaderAddrs}
TestAddrs == {None, AddrText("192.0.2.1", TRUE, FALSE)}
RealIps == {None, AddrText("198.51.100.8", TRUE, FALSE)}
RemoteAddrs == {AddrText("172.16.0.2", TRUE, TRUE), AddrText("198.51.100.9", TRUE, FALSE)}

InitIp == InitWith(ServiceConfigs, <<>>, MaxIpCalls, 0)

NextIp ==
    \E test \in TestAddrs, xff \in ForwardedFors, xri \in RealIps, peer \in RemoteAddrs :
        CallGetRequestIp(test, xff, xri, peer)

SpecIp == InitIp /\ [][NextIp]_vars

\* The update script on three declarations: x.example, whose file and whose
\* answers vary, the whitelisted repo.almalinux.org, which is down, and the
\* private z.example.
UrlOf(scheme, host) == Url(scheme, host, <<SLASH, "almalinux">>)

XAddresses ==
    {<<<<"https", UrlOf("https:", "x.example")>>, <<"http", UrlOf("http:", "x.example")>>>>,
     <<<<"http", UrlOf("http:", "x.example")>>>>,
     <<<<"rsync", UrlOf("rsync:", "x.example")>>>>}

GoodAddress == <<<<"https", UrlOf("https:", "x.example")>>, <<"http", UrlOf("http:", "x.example")>>>>

\* contents of a TIME file around the limit of allowed_outdate
TimeBodies ==
    {NotFetched, Number(Now - 1), Number(Now - AllowedOutdate),
     Number(Now - AllowedOutdate - 1), NaNText, InfText, Garbage}

XAnswers ==
    {Answers(dns, root, time, repos, geo, TRUE, 53) :
        dns \in BOOLEAN, root \in BOOLEAN, time \in TimeBodies,
        repos \in {<<TRUE, TRUE>>, <<TRUE, FALSE>>}, geo \in {0, 52}}

XFiles ==
    {Yaml("x.example", GoodAddress, FALSE, "", "", subnets, answers) :
        subnets \in {<<Cidr(10, 1, 0, 0, 16)>>, <<Cidr(10, 1, 0, 0, 33)>>},
        answers \in XAnswers}
    \cup {Yaml("x.example", address, FALSE, "", "", <<Cidr(10, 1, 0, 0, 16)>>, answers) :
        address \in XAddresses \ {GoodAddress},
        answers \in {Answers(TRUE, TRUE, Number(Now - 1), <<TRUE, TRUE>>, 52, TRUE, 53)}}

\* address_optional: the URLs of the optional module "kitten"
KittenUrls ==
    <<<<"kitten", <<<<"https", Url("https:", "repo.almalinux.org", <<SLASH, "kitten">>)>>>>>>>>

WFile ==
    [address_optional |-> KittenUrls]
    @@ Yaml("repo.almalinux.org",
            <<<<"https", UrlOf("https:", "repo.almalinux.org")>>>>, FALSE, "", "", <<>>,
            Answers(TRUE, FALSE, NotFetched, <<FALSE, FALSE>>, 40, TRUE, 0))

ZFiles ==
    {Yaml("z.example", <<<<"https", UrlOf("https:", "z.example")>>>>, TRUE, "", "",
          <<Cidr(10, 2, 0, 0, 16)>>,
          Answers(dns, FALSE, NotFetched, <<FALSE, FALSE>>, 0, FALSE, 0)) :
        dns \in BOOLEAN}

ScriptNames == {"x.example", "repo.almalinux.org", "z.example"}

\* flap entries left by earlier cycles: none, one about to expire, one that lasts
FlapEntries ==
    {NoEntry, [value |-> ReasonRoot, expires |-> Now + 1],
     [value |-> ReasonRoot, expires |-> Now + FLAPPED_EXPIRED_TIME]}

InitScriptWith(requests, cycles) ==
    /\ config = MkConfig(<<V8, V89, V9>>, <<V7>>, <<<<V8, V89>>>>, VaultMirrorSlash)
    /\ \E x \in XFiles, z \in ZFiles : fleet = <<x, WFile, z>>
    /\ db = <<>>
    /\ listCache = {}
    /\ ipCache = {}
    /\ lock = FALSE
    /\ upd = 0
    /\ resp = NoResp
    /\ vcall = NoCall
    /\ nreq = requests
    /\ ncycle = cycles
    /\ tx = NoTx
    /\ seen = NoRead
    /\ call = NoDirectCall
    /\ \E ex \in FlapEntries, ez \in FlapEntries \ {[value |-> ReasonRoot, expires |-> Now + 1]} :
           flapCache = [n \in ScriptNames |->
                           IF n = "x.example" THEN ex
                           ELSE IF n = "z.example" THEN ez ELSE NoEntry]
    /\ \E lat \in {0, 54} :
           geoCache = [n \in ScriptNames |-> IF n = "x.example" THEN lat ELSE 0]
    /\ clock = Now
    /\ feeds = Published
    /\ subnetsCache = [key \in SubnetKeys |-> NoSubnets]
    /\ fan = NoFan
    /\ geoReq = <<>>
    /\ side = NoSide
    /\ inv = NoInvocations

InitScript == InitScriptWith(0, MaxScriptCycles)

NextScript ==
    \/ ScriptUpdate
    \/ UpdateRefresh

SpecScript == InitScript /\ [][NextScript]_vars

\* The update script on two mirrors hosted in clouds: the provider, the
\* declared regions and the reachability of each vary.
CloudNames == {"c1.example", "c2.example"}

CloudRegionTexts ==
    {"us-east-1", "US-East-1", "us-east-1,eu-west-1", "GLOBAL", "global",
     "westeurope", "us-east1", "us-ashburn-1"}

CloudFiles(name) ==
    {Yaml(name, <<<<"https", UrlOf("https:", name)>>>>, FALSE, cloud_type,
          cloud_region, <<Cidr(10, 9, 0, 0, 16)>>,
          Answers(TRUE, root, Number(Now - 1), <<TRUE, TRUE>>, 52, TRUE, 0)) :
        cloud_type \in {"aws", "azure", "gcp", "oci"},
        cloud_region \in CloudRegionTexts, root \in BOOLEAN}

InitCloud ==
    /\ config = MkConfig(<<V8, V89, V9>>, <<V7>>, <<<<V8, V89>>>>, VaultMirrorSlash)
    /\ \E c1 \in CloudFiles("c1.example"), c2 \in CloudFiles("c2.example") :
           fleet = <<c1, c2>>
    /\ db = <<>>
    /\ listCache = {}
    /\ ipCache = {}
    /\ lock = FALSE
    /\ upd = 0
    /\ resp = NoResp
    /\ vcall = NoCall
    /\ nreq = 0
    /\ ncycle = MaxCloudCycles
    /\ tx = NoTx
    /\ seen = NoRead
    /\ call = NoDirectCall
    /\ flapCache = [n \in CloudNames |-> NoEntry]
    /\ geoCache = [n \in CloudNames |-> 0]
    /\ clock = Now
    /\ feeds = Published
    /\ subnetsCache = [key \in SubnetKeys |-> NoSubnets]
    /\ fan = NoFan
    /\ geoReq = <<>>
    /\ side = NoSide
    /\ inv = NoInvocations

NextCloud ==
    \/ ScriptUpdate
    \/ UpdateRefresh

SpecCloud == InitCloud /\ [][NextCloud]_vars

\* Direct calls of get_<provider>_subnets while documents come and go and
\* time passes.
Providers == {"aws", "gcp", "oci", "azure"}

InitFeeds == InitWith(ServiceConfigs, <<>>, MaxFeedCalls, 0)

NextFeeds ==
    \/ \E provider \in Providers : CallGetSubnets(provider)
    \/ \E provider \in Providers : FeedChange(provider)
    \/ HalfTtl

SpecFeeds == InitFeeds /\ [][NextFeeds]_vars

\* A fan-out of probes under check_tasks.
AnswerLists ==
    UNION {[1..n -> ProbeAnswers] : n \in 0..MaxTasks}

InitFanout == InitWith({MkConfig(<<V8, V89, V9>>, <<V7>>, <<<<V8, V89>>>>,
                                 VaultMirrorSlash)}, <<>>, 0, 0)

TaskStep ==
    \/ TaskRun
    \/ TaskAcquire
    \/ \E i \in 1..MaxTasks : TaskFinish(i)

NextFanout ==
    \/ \E kind \in FanKinds, answers \in AnswerLists : StartFanOut(kind, answers)
    \/ TaskStep
    \/ CheckTasksWake

SpecFanout == InitFanout /\ [][NextFanout]_vars

\* The event loop runs every task that can run and resumes check_tasks when
\* a task it waits for is done; every request ends (AIOHTTP_TIMEOUT).
SpecFanoutFair ==
    /\ SpecFanout
    /\ WF_vars(TaskStep)
    /\ WF_vars(CheckTasksWake)

\* Two public mirrors checked concurrently by one cycle of the script.
MaxGatherCycles == 1

GeoNames == {"g1.example", "g2.example"}

GeoFiles(name) ==
    {Yaml(name, <<<<"https", UrlOf("https:", name)>>>>, FALSE, "", "", <<>>,
          Answers(TRUE, root, Number(Now - 1), <<TRUE, TRUE>>, 52, TRUE, geocoder)) :
        root \in BOOLEAN, geocoder \in {0, 53}}

InitGather ==
    /\ config = MkConfig(<<V8, V89, V9>>, <<V7>>, <<<<V8, V89>>>>, VaultMirrorSlash)
    /\ \E g1 \in GeoFiles("g1.example"), g2 \in GeoFiles("g2.example") :
           fleet = <<g1, g2>>
    /\ db = <<>>
    /\ listCache = {}
    /\ ipCache = {}
    /\ lock = FALSE
    /\ upd = 0
    /\ resp = NoResp
    /\ vcall = NoCall
    /\ nreq = 0
    /\ ncycle = MaxGatherCycles
    /\ tx = NoTx
    /\ seen = NoRead
    /\ call = NoDirectCall
    /\ flapCache = [n \in GeoNames |-> NoEntry]
    /\ \E lat \in {0, 54} :
           geoCache = [n \in GeoNames |-> IF n = "g1.example" THEN lat ELSE 0]
    /\ clock = Now
    /\ feeds = Published
    /\ subnetsCache = [key \in SubnetKeys |-> NoSubnets]
    /\ fan = NoFan
    /\ geoReq = <<>>
    /\ side = NoSide
    /\ inv = NoInvocations

NextGather ==
    \/ GatherStart
    \/ \E i \in 1..2 : CheckMirrorEnter(i)
    \/ \E i \in 1..2 : GeocoderBegin(i)
    \/ \E i \in 1..2 : GeocoderEnd(i)
    \/ GatherEnd
    \/ UpdateRefresh

SpecGather == InitGather /\ [][NextGather]_vars

\* Update cycles of the handler with clients refilling two of the lists.
MaxRefills == 1
MaxRefillCycles == 2

RefillFlags == {Flags(TRUE, TRUE, TRUE, FALSE), Flags(TRUE, TRUE, TRUE, TRUE)}

InitRefill == InitWith(ServiceConfigs, SmallFleet, MaxRefills, MaxRefillCycles)

NextRefill ==
    \/ UpdateCommit
    \/ UpdateRefresh
    \/ \E f \in RefillFlags : RefillRead(f)
    \/ RefillWrite
    \/ \E f \in RefillFlags : ListExpire(f)

SpecRefill == InitRefill /\ [][NextRefill]_vars

\* Cycles of the script over declarations that are edited between them: a
\* well-formed file, one with a subnet that ip_network rejects, one without
\* a URL of a required protocol.
MaxAbortCycles == 2
MaxRedeclares == 1

AbortFiles ==
    {Yaml("x.example", GoodAddress, FALSE, "", "", subnets,
          Answers(TRUE, root, Number(Now - 1), <<TRUE, TRUE>>, 52, TRUE, 53)) :
        subnets \in {<<Cidr(10, 1, 0, 0, 16)>>, <<Cidr(10, 1, 0, 0, 33)>>},
        root \in BOOLEAN}
    \cup {Yaml("x.example", <<<<"http", UrlOf("http:", "x.example")>>>>, FALSE, "", "",
               <<Cidr(10, 1, 0, 0, 16)>>,
               Answers(TRUE, TRUE, Number(Now - 1), <<TRUE, TRUE>>, 52, TRUE, 53))}

InitAbort ==
    /\ config = MkConfig(<<V8, V89, V9>>, <<V7>>, <<<<V8, V89>>>>, VaultMirrorSlash)
    /\ \E x \in AbortFiles, z \in ZFiles : fleet = <<x, WFile, z>>
    /\ db = <<>>
    /\ listCache = {}
    /\ ipCache = {}
    /\ lock = FALSE
    /\ upd = 0
    /\ resp = NoResp
    /\ vcall = NoCall
    /\ nreq = MaxRedeclares
    /\ ncycle = MaxAbortCycles
    /\ tx = NoTx
    /\ seen = NoRead
    /\ call = NoDirectCall
    /\ flapCache = [n \in ScriptNames |-> NoEntry]
    /\ geoCache = [n \in ScriptNames |-> 0]
    /\ clock = Now
    /\ feeds = Published
    /\ subnetsCache = [key \in SubnetKeys |-> NoSubnets]
    /\ fan = NoFan
    /\ geoReq = <<>>
    /\ side = NoSide
    /\ inv = NoInvocations

NextAbort ==
    \/ ScriptUpdate
    \/ UpdateRefresh
    \/ \E yaml_data \in AbortFiles : Redeclare(yaml_data)

SpecAbort == InitAbort /\ [][NextAbort]_vars

\* get_mirror_url over lists of required protocols and urls mappings in every
\* order of their entries.
MaxUrlCalls == 2

ProtocolLists ==
    {<<"https">>, <<"http">>, <<"https", "http">>, <<"http", "https">>}

UrlEntries ==
    {<<"https", UrlOf("https:", "x.example")>>, <<"http", UrlOf("http:", "x.example")>>,
     <<"rsync", UrlOf("rsync:", "x.example")>>}

\* the urls mappings: one to three entries of different types, in any order
UrlMappings ==
    {m \in UNION {[1..n -> UrlEntries] : n \in 1..3} :
        \A i, j \in 1..Len(m) : i # j => m[i] # m[j]}

InitUrl == InitWith({MkConfig(<<V8, V89, V9>>, <<V7>>, <<<<V8, V89>>>>,
                              VaultMirrorSlash)}, <<>>, MaxUrlCalls, 0)

NextUrl ==
    \E protocols \in ProtocolLists, urls \in UrlMappings :
        CallGetMirrorUrl(protocols, urls)

SpecUrl == InitUrl /\ [][NextUrl]_vars

\* Direct calls of the GeoIP step: the geolocation blocks a mirror file can
\* hold (a key left out is 'Unknown', a null is None) and the GeoIP answers.
MaxGeoCalls == 1

YamlGeo ==
    [continent : {"Unknown", "EU"},
     country : {"Unknown", NoneValue, "", "de", "DE", "Germany", "Atlantis"},
     state_province : {"Unknown", "Hesse"},
     city : {"Unknown", NoneValue, "", "Bonn"}]

GeoMatches ==
    {NoMatch, GeoHit("EU", "FR", "IDF", "Paris", 48),
     GeoHit("EU", "FR", NoneValue, NoneValue, 48)}

InitGeo == InitWith({MkConfig(<<V8, V89, V9>>, <<V7>>, <<<<V8, V89>>>>,
                              VaultMirrorSlash)}, <<>>, MaxGeoCalls, 0)

NextGeo == \E yaml \in YamlGeo, match \in GeoMatches : CallSetGeo(yaml, match)

SpecGeo == InitGeo /\ [][NextGeo]_vars

\* Direct calls of randomize_mirrors_within_distance for the client IpGeo (US,
\* 40 degrees north): mirrors inside and outside the country, nearer and
\* farther than the radius, in lists of up to four mirrors in any order.
MaxShuffleCalls == 1
MaxShuffleLen == 4
ShuffleClient == get_geo_data_by_ip(IpGeo)

Place(name, country, latitude) ==
    [name |-> name, country |-> country, latitude |-> latitude]

ShufflePool ==
    {Place("us1", "US", 41), Place("us2", "US", 42), Place("us3", "US", 30),
     Place("us4", "US", 28), Place("ca1", "CA", 43), Place("ca2", "CA", 44),
     Place("ca3", "CA", 50), Place("mx1", "MX", 20)}

\* the lists handed to the sort: up to MaxShuffleLen places of the pool, from
\* south to north or from north to south
ShuffleLists ==
    {m \in UNION {[1..n -> ShufflePool] : n \in 1..MaxShuffleLen} :
        \/ \A i, j \in 1..Len(m) : i < j => m[i].latitude < m[j].latitude
        \/ \A i, j \in 1..Len(m) : i < j => m[i].latitude > m[j].latitude}

InitShuffle == InitWith({MkConfig(<<V8, V89, V9>>, <<V7>>, <<<<V8, V89>>>>,
                                  VaultMirrorSlash)}, <<>>, MaxShuffleCalls, 0)

NextShuffle ==
    \E mirrors \in ShuffleLists :
        CallRandomize(ShuffleClient.latitude, mirrors, ShuffleClient.country)

SpecShuffle == InitShuffle /\ [][NextShuffle]_vars

\* Direct calls of get_allowed_version with versions of optional modules:
\* configurations that declare the module kitten for version 10 (or for 9,
\* or no module), with and without 10 among the duplicated keys.
V10Kitten == V10 \o <<"-", "kitten">>
V9Kitten  == V9 \o <<"-", "kitten">>

ModuleDicts == {<<>>, <<<<"kitten", <<V10>>>>>>, <<<<"kitten", <<V9, V10>>>>>>}
ModuleVersionLists == {<<V9>>, <<V9, V10>>, <<V9, V10, V10Kitten>>, <<V10>>}
ModuleVaultLists == {<<>>, <<V8>>}
ModuleDupDicts == {<<>>, <<<<V9, V10>>>>, <<<<V10, V9>>>>, <<<<V8, V89>>>>}

ModuleConfigs ==
    {[optional_module_versions |-> mods]
         @@ MkConfig(vs, vaults, dups, VaultMirrorSlash) :
        mods \in ModuleDicts, vs \in ModuleVersionLists,
        vaults \in ModuleVaultLists, dups \in ModuleDupDicts}

ModuleInputs == {V9, V10, V9Kitten, V10Kitten}

InitModule == InitWith(ModuleConfigs, <<>>, 0, 0)

NextModule == \E version \in ModuleInputs : CallGetAllowedVersion(version)

SpecModule == InitModule /\ [][NextModule]_vars

\* Direct calls of the ASN test: clients without an ASN and with ASNs that
\* are equal to, contained in, or unrelated to the ASNs a mirror declares.
MaxAsnCalls == 1
MaxAsnDeclared == 2

Asn12    == <<"1", "2">>
Asn123   == <<"1", "2", "3">>
Asn1234  == <<"1", "2", "3", "4">>
Asn234   == <<"2", "3", "4">>

ClientAsns == {<<>>, Asn12, Asn123, Asn1234, Asn234, AsnA}
DeclaredAsns ==
    {d \in UNION {[1..n -> {Asn12, Asn123, Asn1234, AsnA}] : n \in 0..MaxAsnDeclared} :
        \A i, j \in 1..Len(d) : i # j => d[i] # d[j]}

InitAsn == InitWith({MkConfig(<<V8, V89, V9>>, <<V7>>, <<<<V8, V89>>>>,
                              VaultMirrorSlash)}, <<>>, MaxAsnCalls, 0)

NextAsn == \E asn \in ClientAsns, declared \in DeclaredAsns : CallAsnMatch(asn, declared)

SpecAsn == InitAsn /\ [][NextAsn]_vars

\* Concurrent update requests on the first mirror of the small fleet.
InitLock == InitWith({MkConfig(<<V8, V89, V9>>, <<V7>>, <<<<V8, V89>>>>,
                               VaultMirrorSlash)}, Take(SmallFleet, 1), 0, 0)

\* the steps of call i
HandlerStep(i) ==
    \/ HandlerCheckPid(i)
    \/ HandlerWritePid(i)
    \/ HandlerRaise(i)
    \/ HandlerProbeAndCommit(i)
    \/ HandlerRefresh(i)
    \/ HandlerFinally(i)

NextLock ==
    \/ HandlerArrive
    \/ \E i \in 1..MaxInvocations : HandlerCheckPid(i)
    \/ \E i \in 1..MaxInvocations : HandlerWritePid(i)
    \/ \E i \in 1..MaxInvocations : HandlerProbeAndCommit(i)
    \/ \E i \in 1..MaxInvocations : HandlerRaise(i)
    \/ \E i \in 1..MaxInvocations : HandlerRefresh(i)
    \/ \E i \in 1..MaxInvocations : HandlerFinally(i)

SpecLock == InitLock /\ [][NextLock]_vars

\* every call that has arrived goes on to its end: the coroutine of a
\* request is run until it returns or raises
SpecLockFair ==
    SpecLock /\ \A i \in 1..MaxInvocations : WF_vars(HandlerStep(i))

\* The update script run again and again on one public mirror that may be
\* down, stale or without repodata, with or without a flap entry left by an
\* earlier run, and that may recover.
MaxFlapCycles == 5

\* flap entries left by the runs one and two ticks before the first one
FlapStart ==
    {NoEntry, [value |-> ReasonRoot, expires |-> Now + 1],
     [value |-> ReasonRepo, expires |-> Now + 2]}

FlapFiles ==
    {Yaml("x.example", GoodAddress, FALSE, "", "", <<Cidr(10, 1, 0, 0, 16)>>,
          Answers(dns, root, time, repos, 52, TRUE, 53)) :
        dns \in BOOLEAN, root \in BOOLEAN,
        time \in {Number(Now - 1), Number(Now - AllowedOutdate - 1)},
        repos \in {<<TRUE, TRUE>>, <<TRUE, FALSE>>}}

InitFlap ==
    /\ config = MkConfig(<<V8, V89, V9>>, <<V7>>, <<<<V8, V89>>>>, VaultMirrorSlash)
    /\ \E x \in FlapFiles : fleet = <<x>>
    /\ db = <<>>
    /\ listCache = {}
    /\ ipCache = {}
    /\ lock = FALSE
    /\ upd = 0
    /\ resp = NoResp
    /\ vcall = NoCall
    /\ nreq = 0
    /\ ncycle = MaxFlapCycles
    /\ tx = NoTx
    /\ seen = NoRead
    /\ call = NoDirectCall
    /\ \E ex \in FlapStart :
           flapCache = [n \in ScriptNames |->
                           IF n = "x.example" THEN ex ELSE NoEntry]
    /\ geoCache = [n \in ScriptNames |-> 0]
    /\ clock = Now
    /\ feeds = Published
    /\ subnetsCache = [key \in SubnetKeys |-> NoSubnets]
    /\ fan = NoFan
    /\ geoReq = <<>>
    /\ side = NoSide
    /\ inv = NoInvocations

NextFlap == ScriptUpdate \/ UpdateRefresh \/ MirrorRecovers

SpecFlap == InitFlap /\ [][NextFlap]_vars

\* a run of the update script is started: the one step that counts ncycle
\* down, possible whenever a run is left and none is under way
RunStarts == ncycle > 0 /\ upd = 0 /\ ncycle' = ncycle - 1

\* the update cycles keep running: the script is started again and again,
\* and each run goes on to refresh the lists
SpecFlapFair == SpecFlap /\ WF_ncycle(RunStarts) /\ WF_vars(UpdateRefresh)

\* Direct calls of the loader and of the status step on the same
\* declarations.
InitCalls == InitScriptWith(MaxLoaderCalls, 0)

NextCalls ==
    \/ CallGetMirrorsInfo
    \/ \E i \in 1..Len(fleet) : CallSetStatus(i)

SpecCalls == InitCalls /\ [][NextCalls]_vars

---------------------------------------------------------------------------
(* Vocabulary of the properties.                                           *)

Names(mirrors) == AsList([i \in 1..Len(mirrors) |-> mirrors[i].name])

\* a text without its trailing slashes
RECURSIVE StripSlashes(_)
StripSlashes(text) ==
    IF text # <<>> /\ text[Len(text)] = SLASH
    THEN StripSlashes(SubSeq(text, 1, Len(text) - 1)) ELSE text

\* base joined with '<version>/<path>': one slash between the three parts
Joined(base, version, path) ==
    StripSlashes(base) \o <<SLASH>> \o version \o <<SLASH>> \o path

\* the repo_path of an answered request
RepoPathOf(r) ==
    IF r.iso_list THEN <<"isos", SLASH>> \o r.arch
    ELSE RepoOf(config.repos, r.repository).path

\* r answers a get_mirrors_list request that passed the validation
IsAnswer(r) == r.kind = "mirrors_list" /\ r.err = NoError

\* ... for a vault version or a vault repository
IsVaultAnswer(r) ==
    /\ IsAnswer(r)
    /\ \/ r.nver \in Range(config.vault_versions)
       \/ ~r.iso_list /\ RepoOf(config.repos, r.repository).vault

\* r is a selection for a /mirrorlist request
IsMirrorlistSelection(r) == IsAnswer(r) /\ ~r.iso_list /\ ~r.vault

\* r is a selection for an ISO list (/isolist or /isos)
IsIsoSelection(r) ==
    /\ r.kind \in {"mirrors_list", "isos_by_countries"}
    /\ r.err = NoError /\ r.iso_list /\ ~r.vault

IsSelection(r) == IsMirrorlistSelection(r) \/ IsIsoSelection(r)

\* the filter a selection was made with
FlagsOf(r) == IF r.iso_list THEN IsoListFlags ELSE MirrorListFlags

\* the step is a request
IsRequestStep == nreq' = nreq - 1

\* the selection was computed from the shared list, not read from the
\* per-IP cache
Computed(r) == r.src \in {"all", "network", "geo"}

\* no update cycle stands between its commit and the end of its warm-up
NoCycleRunning == upd = 0

\* the committed row matches the client by subnet or by ASN
RowMatches(row, ip) ==
    /\ ip # NoIp
    /\ \/ is_ip_in_any_subnet(ip, row.subnets)
       \/ \E d \in Range(fleet) :
             d.name = row.name /\ get_asn_by_ip(ip) \in Range(d.asn)

\* a committed ok monopoly mirror matches the client
MonopolyMatches(ip) ==
    \E q \in Range(db) : q.monopoly /\ q.status = "ok" /\ RowMatches(q, ip)

\* some URL of the list is on the host of the mirror
HasUrlOf(row, urls) ==
    \E i \in 1..Len(urls) : UrlPrefix(urls[i]) = UrlPrefix(row.mirror_url)

---------------------------------------------------------------------------
(* Properties of the request handlers.                                     *)

\* C1: a get_mirrors_list request that passes the validation and whose
\* normalized version is a vault version, or whose repository is a vault
\* repository, is answered with exactly one URL, vault_mirror joined with
\* '<normalized version>/<repo_path>', whoever asks and whatever the store
\* and the caches hold.
C1_VaultUrl ==
    IsVaultAnswer(resp) =>
        resp.urls = <<Joined(config.vault_mirror, resp.nver, RepoPathOf(resp))>>

\* a vault repository of a version that is not a vault version, asked for by
\* a client with a network match while mirrors are committed and cached
C1_Witness ==
    /\ IsVaultAnswer(resp)
    /\ resp.repository = "vault-extras"
    /\ resp.nver \notin Range(config.vault_versions)
    /\ resp.ip = IpInA
    /\ db # <<>> /\ listCache # {} /\ ipCache # {}

\* a committed ok mirror whose subnets contain the client, for a client no
\* ok monopoly mirror matches, has a URL in the /mirrorlist answer
SubnetMirrorsListed(r) ==
    \A row \in Range(db) :
        (/\ row.status = "ok"
         /\ r.ip # NoIp
         /\ is_ip_in_any_subnet(r.ip, row.subnets)
         /\ ~MonopolyMatches(r.ip))
        => HasUrlOf(row, r.urls)

MonopolyRule(r, whenListed(_)) ==
    \A row \in Range(db) :
        (row.monopoly /\ RowMatches(row, r.ip)) =>
            IF row.status = "ok" /\ whenListed(row)
            THEN Names(r.mirrors) = <<row.name>>
            ELSE row.name \notin Range(Names(r.mirrors))

Always(row) == TRUE
InFilteredList(row) == PassesFilter(row, IsoListFlags)

SelectedAreOk(r) ==
    \A i \in 1..Len(r.mirrors) :
        \E row \in Range(db) : row.name = r.mirrors[i].name /\ row.status = "ok"

C5_Original ==
    (IsMirrorlistSelection(resp) /\ resp.ip # NoIp) =>
        \A i \in 1..Len(resp.mirrors) :
            resp.mirrors[i].private => RowMatches(resp.mirrors[i], resp.ip)

\* C6: every mirror of an ISO-list selection (/isolist and /isos) is ok,
\* public, not a cloud mirror and has the full ISO set, also when the
\* selection is read from the per-IP cache after /mirrorlist requests of the
\* same client.
C6_IsoMirrors ==
    IsIsoSelection(resp) =>
        \A i \in 1..Len(resp.mirrors) :
            /\ resp.mirrors[i].status = "ok"
            /\ ~resp.mirrors[i].private
            /\ resp.mirrors[i].cloud_type = ""
            /\ resp.mirrors[i].has_full_iso_set

\* an ISO list read from the per-IP cache while the cache also holds the
\* /mirrorlist selection of the same client, with mirrors no ISO list may hold
C6_Witness ==
    /\ IsIsoSelection(resp) /\ resp.src = "cache"
    /\ resp.mirrors # <<>>
    /\ \E e \in ipCache :
          /\ e.key = IpKey(resp.ip, FALSE)
          /\ \E i \in 1..Len(e.data) : ~e.data[i].has_full_iso_set

\* C7 as stated: the list of the geographic pass has at most
\* LENGTH_GEO_MIRRORS_LIST mirrors, with or without GeoIP data of the client.
C7_Original ==
    (IsSelection(resp) /\ resp.src = "geo") =>
        Len(resp.mirrors) <= LENGTH_GEO_MIRRORS_LIST

\* C7: the list of the geographic pass has at most LENGTH_GEO_MIRRORS_LIST
\* mirrors when the client has GeoIP data; for a client without GeoIP data
\* it is the whole filtered list, however long.
C7_GeoListLength ==
    [][(IsRequestStep /\ IsSelection(resp') /\ resp'.src = "geo") =>
          IF get_geo_data_by_ip(resp'.ip).found
          THEN Len(resp'.mirrors) <= LENGTH_GEO_MIRRORS_LIST
          ELSE /\ Len(resp'.mirrors)
                    = Len(get_mirror_list(listCache', FlagsOf(resp')).data)
               /\ Range(resp'.mirrors)
                    = Range(LoadAll(get_mirror_list(listCache',
                                                    FlagsOf(resp')).data))]_vars

\* both cases with more ok mirrors than the limit: a client without GeoIP
\* data gets them all while the per-IP cache holds a list of the limit's length
\* for a client with GeoIP data
C7_Witness ==
    /\ IsSelection(resp) /\ resp.src = "geo"
    /\ ~get_geo_data_by_ip(resp.ip).found
    /\ Len(resp.mirrors) > LENGTH_GEO_MIRRORS_LIST
    /\ \E e \in ipCache : Len(e.data) = LENGTH_GEO_MIRRORS_LIST

\* the number of ok mirrors of the filtered list of a selection that match
\* the client by subnet or ASN
MatchingIn(cache, r) ==
    LET list == get_mirror_list(cache, FlagsOf(r)).data
    IN  Cardinality({i \in 1..Len(list) :
            list[i].status = "ok" /\ RowMatches(list[i], r.ip)})

\* C8 as stated: the list of the network pass never has more than
\* LENGTH_CLOUD_MIRRORS_LIST mirrors, however many mirrors match the client.
C8_Original ==
    (IsSelection(resp) /\ resp.src = "network") =>
        Len(resp.mirrors) <= LENGTH_CLOUD_MIRRORS_LIST

\* C8: the network pass returns every matching mirror (no monopoly mirror
\* among them): fewer than LENGTH_CLOUD_MIRRORS_LIST are padded up to that
\* length at most, more than that are all returned.
C8_NetworkListLength ==
    [][(IsRequestStep /\ IsSelection(resp') /\ resp'.src = "network") =>
          LET n == MatchingIn(listCache', resp')
          IN  IF n >= LENGTH_CLOUD_MIRRORS_LIST
              THEN Len(resp'.mirrors) = n
              ELSE n <= Len(resp'.mirrors)
                   /\ Len(resp'.mirrors) <= LENGTH_CLOUD_MIRRORS_LIST]_vars

\* a list longer than the limit for the client with many matching mirrors,
\* while the per-IP cache holds a padded list of the limit's length
C8_Witness ==
    /\ IsSelection(resp) /\ resp.src = "network"
    /\ resp.ip = IpFar
    /\ Len(resp.mirrors) > LENGTH_CLOUD_MIRRORS_LIST
    /\ \E e \in ipCache :
          /\ e.key = IpKey(IpInA, FALSE)
          /\ Len(e.data) = LENGTH_CLOUD_MIRRORS_LIST

\* an active version: listed in versions and not in vault_versions
IsActiveVersion(version) ==
    /\ version \in Range(config.versions)
    /\ version \notin Range(config.vault_versions)

\* the case analysis of get_allowed_version as the specification gives it
AllowedVersionCases(version, result) ==
    LET dups  == config.duplicated_versions
        known == version \in Range(config.versions)
                 \/ version \in Range(config.vault_versions)
    IN  IF IsActiveVersion(version) /\ version \in DictKeys(dups)
        THEN result = Ok(DictGet(dups, version))
        ELSE IF ~known /\ \E k \in DictKeys(dups) : StartsWith(version, k)
        THEN /\ result.err = NoError
             /\ \E k \in DictKeys(dups) :
                   StartsWith(version, k) /\ result.val = DictGet(dups, k)
        ELSE IF IsActiveVersion(version)
                \/ version \in Range(config.vault_versions)
        THEN result = Ok(version)
        ELSE result = Raise(UnknownRepoAttribute)

\* C9 as stated: get_allowed_version(V) is duplicated_versions[V] for an
\* active V that is a duplicated key, duplicated_versions[k] for a V in
\* neither list with a duplicated key k as prefix, V itself for an active V
\* that is no duplicated key and for a vault version, and fails with
\* UnknownRepoAttribute otherwise.
C9_Original ==
    vcall.called => AllowedVersionCases(vcall.version, vcall.result)

\* C10: a non-vault answer has one URL per selected mirror, in the order of
\* the selection; each is the mirror_url joined with
\* '<normalized version>/<repo_path>', so the URLs of an ISO list end with
\* '<normalized version>/isos/<arch>'.
C10_MirrorUrls ==
    (IsAnswer(resp) /\ ~IsVaultAnswer(resp)) =>
        /\ Len(resp.urls) = Len(resp.mirrors)
        /\ \A i \in 1..Len(resp.urls) :
              /\ resp.urls[i] = Joined(resp.mirrors[i].mirror_url, resp.nver,
                                       RepoPathOf(resp))
              /\ resp.iso_list =>
                    EndsWith(resp.urls[i],
                             resp.nver \o <<SLASH, "isos", SLASH>> \o resp.arch)

\* a list of several mirrors for the duplicated version 8, one of them
\* declared with a trailing slash
C10_Witness ==
    /\ IsMirrorlistSelection(resp)
    /\ resp.version = V8 /\ resp.nver = V89
    /\ Len(resp.mirrors) >= 3
    /\ "p.example" \in Range(Names(resp.mirrors))
    /\ Names(resp.mirrors)[1] # "a.example"

---------------------------------------------------------------------------
(* Properties of the validation, the update cycle and the loading.         *)

\* the arches the configuration lists for some version
ListedArches(cfg) ==
    UNION {Range(cfg.arches[i][2]) : i \in 1..Len(cfg.arches)}

\* C11 as stated: an /isolist request whose arch is in no arches list of the
\* configuration fails with UnknownRepoAttribute and returns no mirror URL.
C11_Original ==
    (resp.kind = "mirrors_list" /\ resp.iso_list
        /\ resp.arch \notin ListedArches(config))
    => (resp.err = UnknownRepoAttribute /\ resp.urls = <<>>)

IsScriptStep == ncycle' = ncycle - 1
XFile == fleet[1]
RowsNamed(rows, name) == SelectSeq(rows, LAMBDA r : r.name = name)
RowsNotNamed(rows, name) == SelectSeq(rows, LAMBDA r : r.name # name)

\* x.example has one of the faults: its DNS query fails, a probe of it
\* fails, a CIDR of its subnets is malformed, none of its urls has a
\* required protocol
XFaulty ==
    \/ ~XFile.answers.dns
    \/ ~XFile.answers.root
    \/ ~check_tasks(XFile.answers.repos)
    \/ \E j \in 1..Len(XFile.subnets) : ip_network_raises(XFile.subnets[j])
    \/ config_validation(XFile) /\ get_mirror_url(required_protocols, XFile.address).raised # ""

\* C13 as claimed: when x.example alone is faulty, a run of the update script
\* commits, the row of x.example carries a status other than ok, and the rows
\* of the other mirrors are those of a run without x.example.
C13_Original ==
    [][(IsScriptStep /\ XFaulty /\ fleet[3].answers.dns)
       => /\ call'.raised = ""
          /\ upd' = 1
          /\ Len(RowsNamed(db', "x.example")) = 1
          /\ RowsNamed(db', "x.example")[1].status # "ok"
          /\ RowsNotNamed(db', "x.example")
               = CheckAll(get_mirrors_info(Tail(fleet)).result,
                          ScriptSubnets(subnetsCache, feeds, clock).subnets,
                          flapCache, geoCache, clock).rows]_vars

\* the declaration a committed row was made from, the time of the last run
\* of the script, and the state after a run that committed
FileOf(name) == fleet[CHOOSE i \in 1..Len(fleet) : fleet[i].name = name]
LastRunAt == clock - 1
ScriptCommitted == call.fn = "update_mirrors_handler" /\ call.raised = ""
Probed(row) == ~row.private /\ row.name \notin WHITELIST_MIRRORS

\* C14 as claimed: a committed mirror that is neither private nor whitelisted
\* and has status ok answered the probe of its root URL, had a TIME file that
\* parsed to a timestamp not older than allowed_outdate, and answered every
\* repodata probe, in the run that committed it.
C14_Original ==
    ScriptCommitted =>
        \A i \in 1..Len(db) :
            (Probed(db[i]) /\ db[i].status = "ok") =>
                LET world == FileOf(db[i].name).answers
                IN  /\ world.root
                    /\ world.time.kind = "number"
                    /\ world.time.value >= LastRunAt - AllowedOutdate
                    /\ check_tasks(world.repos)

\* C15 as claimed: after a run of the update script that committed, every
\* mirror declared private has status ok in the store.
C15_Original ==
    ScriptCommitted =>
        \A i \in 1..Len(db) : db[i].private => db[i].status = "ok"

\* C16 as claimed: the status step, run for a public mirror that is not
\* whitelisted and has no flap entry, whose URL answers and whose TIME file
\* holds NaN or text that is no number, leaves the status expired.
C16_Original ==
    (/\ call.fn = "set_status_of_mirror"
     /\ ~call.mirror_info.private
     /\ call.mirror_info.name \notin WHITELIST_MIRRORS
     /\ call.flap = NoFlap
     /\ call.mirror_info.answers.root
     /\ call.mirror_info.answers.time.kind \in {"nan", "text"})
    => call.status = "expired"

\* the last thing that ran was the update script: a run now is back-to-back
\* with it
RanBefore == call.fn = "update_mirrors_handler"

\* nothing runs out between the last run and now: no flap entry that was
\* there for the last run is gone, and no TIME stamp that was fresh is old
NoExpiryBetween ==
    /\ \A n \in ScriptNames :
           cache_get(flapCache, n, LastRunAt) = cache_get(flapCache, n, clock)
    /\ \A i \in 1..Len(fleet) :
           is_mirror_expired(fleet[i].answers.time, LastRunAt)
               = is_mirror_expired(fleet[i].answers.time, clock)

PlaceIn(mirrors, name) ==
    IF \E i \in 1..Len(mirrors) : mirrors[i].name = name
    THEN CHOOSE i \in 1..Len(mirrors) : mirrors[i].name = name ELSE 0
FartherThanRadius(mirror, ip_address) ==
    get_distance_in_km(mirror.latitude, get_geo_data_by_ip(ip_address).latitude)
        > RANDOMIZE_WITHIN_KM

\* C18 as claimed: in two selections by geodata for the same client on the
\* same filtered mirrors, any two mirrors farther than the radius stand in
\* the same order.
C18_Original ==
    call.fn = "get_nearest_mirrors_by_geo_data" =>
        \A i, j \in 1..Len(call.first) :
            (/\ i < j
             /\ FartherThanRadius(call.first[i], call.ip)
             /\ FartherThanRadius(call.first[j], call.ip)
             /\ PlaceIn(call.second, call.first[i].name) > 0
             /\ PlaceIn(call.second, call.first[j].name) > 0)
            => PlaceIn(call.second, call.first[i].name)
                   < PlaceIn(call.second, call.first[j].name)

\* the address the stated order of precedence gives: TEST_IP_ADDRESS, the
\* first address of X-Forwarded-For that is not private, X-Real-Ip, the peer
StatedRequestIp(c) ==
    IF c.test # None THEN c.test
    ELSE IF c.forwarded_for.present /\ FirstPublic(c.forwarded_for.parts) # None
    THEN FirstPublic(c.forwarded_for.parts)
    ELSE IF c.real_ip # None THEN c.real_ip
    ELSE c.remote_addr

\* C19 as claimed: _get_request_ip does not raise and returns
\* TEST_IP_ADDRESS when it is set, else the first address of X-Forwarded-For
\* that is not private, else X-Real-Ip, else the address of the peer.
C19_Original ==
    call.fn = "_get_request_ip" =>
        call.raised = "" /\ call.result = StatedRequestIp(call)

\* the declarations with a URL of a required protocol
HasRequiredUrl(yaml_data) ==
    \E i \in 1..Len(yaml_data.address) :
        yaml_data.address[i][1] \in Range(required_protocols)

\* C20 as claimed: get_mirrors_info does not raise and returns the mirrors
\* whose declarations have a URL of a required protocol, in the order of
\* the files.
C20_Original ==
    call.fn = "get_mirrors_info" =>
        /\ call.raised = ""
        /\ Names(call.result) = Names(SelectSeq(fleet, HasRequiredUrl))

---------------------------------------------------------------------------
(* C21: the subnets of a cloud mirror after the cloud-subnet step.         *)

\* the map a provider publishes by itself
OwnSubnets(cloud_type) ==
    CASE cloud_type = "aws" -> GroupPrefixes(AwsDoc, <<>>)
      [] cloud_type = "gcp" -> GroupPrefixes(GcpDoc, <<>>)
      [] cloud_type = "oci" -> GroupPrefixes(OciDoc, <<>>)
      [] cloud_type = "azure" -> AzureRegions(AzureDoc, <<>>)

\* the union, over the regions a mirror declares, of the ranges of its
\* own provider
OwnRanges(file) ==
    Range(RangesOf(SplitRegions(file.cloud_region), OwnSubnets(file.cloud_type)))

\* C21 as claimed: after a run of the update script every checked mirror of
\* AWS, Azure, GCP or OCI for which the cloud-subnet step ran holds exactly the
\* ranges its own provider publishes for its regions, and none of another
\* provider.
C21_Original ==
    ScriptCommitted =>
        \A i \in 1..Len(call.checked) :
            LET row == call.checked[i]
            IN  (row.cloud_type \in {"aws", "azure", "gcp", "oci"}
                 /\ row.status \in {"ok", "expired"})
                    => Range(row.subnets) = OwnRanges(FileOf(row.name))

---------------------------------------------------------------------------
(* C30: what get_<provider>_subnets returns when the fetch fails.          *)

\* the cache key of a provider, a call whose fetch fails, and a provider
\* whose map was stored by an earlier fetch (the entry may have expired)
SubnetsKey(provider) ==
    CASE provider = "aws" -> "aws_subnets"
      [] provider = "gcp" -> "gcp_subnets"
      [] provider = "oci" -> "oci_subnets"
      [] provider = "azure" -> "azure_subnets"
IsSubnetsCall(provider) ==
    nreq' = nreq - 1 /\ call'.fn = "get_subnets" /\ call'.provider = provider
FetchFails(provider) ==
    /\ ~get_subnets_from_cache(subnetsCache, SubnetsKey(provider), clock).present
    /\ feeds[provider] = Unavailable
FetchedBefore(provider) == subnetsCache[SubnetsKey(provider)].present

\* C30 as claimed: a call of get_<provider>_subnets whose fetch fails returns
\* the map fetched before if there is one, returns an empty map only if none
\* was ever fetched, and stores nothing.
C30_Original ==
    [][\A provider \in Providers :
          (IsSubnetsCall(provider) /\ FetchFails(provider))
              => /\ FetchedBefore(provider)
                      => call'.result = subnetsCache[SubnetsKey(provider)].value
                 /\ call'.result = <<>> => ~FetchedBefore(provider)
                 /\ subnetsCache' = subnetsCache]_vars

---------------------------------------------------------------------------
(* C22: a mirror with a flap entry is not probed.                          *)

\* the i-th loaded mirror resolves and has a live flap entry when a run of
\* the script starts
FlapEntryAt(i) ==
    /\ i \in 1..Len(get_mirrors_info(fleet).result)
    /\ get_mirrors_info(fleet).result[i].answers.dns
    /\ cache_get(flapCache, get_mirrors_info(fleet).result[i].name, clock) # NoFlap

\* C22: in a run of the update script, a mirror that has a flap entry when
\* its status step runs is not probed over HTTP and gets the cached reason
\* as its status.
C22_FlapShortCircuit ==
    [][IsScriptStep =>
          \A i \in 1..Len(fleet) :
              FlapEntryAt(i) =>
                  /\ call'.probes[i] = {}
                  /\ call'.checked[i].status
                       = cache_get(flapCache, call'.checked[i].name, clock)]_vars

\* a run has just given x.example, which answers every probe, the reason of
\* its flap entry without probing it
C22_Witness ==
    /\ call.fn = "update_mirrors_handler"
    /\ call.raised = ""
    /\ fleet[1].answers.dns /\ fleet[1].answers.root
    /\ flapCache["x.example"].expires > LastRunAt
    /\ flapCache["x.example"].expires < LastRunAt + FLAPPED_EXPIRED_TIME
    /\ call.checked[1].status = ReasonRoot
    /\ call.probes[1] = {}

---------------------------------------------------------------------------
(* check_tasks over a fan-out of probes.                                   *)

AllPositive == \A i \in 1..Len(fan.tasks) : fan.tasks[i].answer = ""

Returned == fan.pc = "returned"

ReturnedFalse == Returned /\ ~fan.ret.result

\* the result and the reason check_tasks returned are those of the probes
ReturnsTheProbes ==
    Returned =>
        /\ fan.ret.result <=> AllPositive
        /\ fan.ret.result => fan.ret.reason = <<>>
        /\ ~fan.ret.result =>
               \E i \in 1..Len(fan.tasks) :
                   /\ fan.tasks[i].st = "done"
                   /\ ~fan.tasks[i].result
                   /\ fan.tasks[i].reason = fan.ret.reason

\* C23: check_tasks returns for every finite set of probe tasks, the empty
\* set included, with (True, None) exactly when every task returned a
\* positive result and otherwise with False and the reason of a task that
\* returned negative.
C23_Original ==
    /\ fan.pc # "raised"
    /\ ReturnsTheProbes

Unfinished(i) == ~Finished(fan.tasks[i])

HoldsPermit(i) == fan.tasks[i].st = "requesting"

\* C24 as stated: when check_tasks has returned False, no task of the
\* fan-out is pending and none holds the semaphore.
C24_Original ==
    ReturnedFalse =>
        /\ \A i \in 1..Len(fan.tasks) : ~Unfinished(i)
        /\ fan.free = Permits(fan.kind)

AllSettled ==
    /\ \A i \in 1..Len(fan.tasks) : ~Unfinished(i)
    /\ fan.free = Permits(fan.kind)

\* C24: when one probe of a fan-out returns negative, check_tasks requests
\* the cancellation of every sibling that has not completed and returns
\* False without waiting for them.  On return a sibling may still be pending
\* and may still hold the semaphore; from then on no sibling sends a new
\* request, and every sibling ends and releases the semaphore when the event
\* loop runs it next.
C24_CancelRequested ==
    /\ [](ReturnedFalse =>
             \A i \in 1..Len(fan.tasks) :
                 Unfinished(i) => fan.tasks[i].must_cancel)
    /\ [][ReturnedFalse =>
             \A i \in 1..Len(fan.tasks) :
                 HoldsPermit(i)' => HoldsPermit(i)]_vars
    /\ (ReturnedFalse ~> AllSettled)

C24_Witness ==
    /\ ReturnedFalse
    /\ \E i, j \in 1..Len(fan.tasks) :
           /\ HoldsPermit(i) /\ fan.tasks[i].must_cancel
           /\ fan.tasks[j].st = "waiting" /\ fan.tasks[j].must_cancel
    /\ fan.free < Permits(fan.kind)

---------------------------------------------------------------------------
(* Requests to the online geocoder.                                        *)

AtGeocoder == {i \in 1..Len(geoReq) : geoReq[i].pc = "geocoder"}

\* C25: during an update cycle at most one request to the online geocoder
\* is in flight at any time, across all mirrors processed concurrently.
C25_Original == Cardinality(AtGeocoder) <= 1

---------------------------------------------------------------------------
(* The rows of a committed cycle.                                          *)

CycleCommitted == ncycle < MaxCycles

\* C26: after a successful update cycle the committed MirrorSet has exactly
\* one Mirror row for every mirror declared in that cycle, the mirrors whose
\* DNS resolution or probes failed included.
C26_Original ==
    CycleCommitted =>
        \A i \in 1..Len(fleet) : Len(RowsNamed(db, fleet[i].name)) = 1

---------------------------------------------------------------------------
(* The rows of the tables after a commit.                                  *)

TableRows == side.url \o side.module_url \o side.subnet \o side.subnet_int

\* the cycle that ran last (cycles are numbered by the cycles left to run)
LastCycle == ncycle + 1

\* C27: after each commit the store holds only rows created in that cycle:
\* no Url, ModuleUrl, Subnet or SubnetInt row of an earlier cycle survives.
C27_Original ==
    ScriptCommitted =>
        \A i \in 1..Len(TableRows) : TableRows[i].cycle = LastCycle

---------------------------------------------------------------------------
(* The mirrors-list cache after a warm-up.                                 *)

Warmed == ncycle < MaxRefillCycles /\ upd = 0 /\ ~lock

EntryIsCurrent(f) ==
    LET entry == get_mirror_list(listCache, f)
    IN  entry.found => entry.data = get_all_mirrors_db(db, f)

\* C28: once an update cycle has finished warming the cache and no other
\* cycle is running, every existing mirrors_list_* entry equals the result
\* of the corresponding filtered query on the committed store, also when
\* client requests that refill missing entries interleave with the cycle.
C28_Original == Warmed => \A f \in AllFlags : EntryIsCurrent(f)

---------------------------------------------------------------------------
(* A cycle that raises.                                                    *)

\* C29: if an update cycle raises an error before or during the commit
\* transaction, the committed MirrorSet is exactly the previous snapshot: no
\* partial delete or insert of Mirror, Url or Subnet rows becomes visible.
C29_Rollback ==
    [][IsScriptStep /\ call'.raised # "" => db' = db /\ side' = side]_vars

C29_Witness ==
    /\ call.fn = "update_mirrors_handler"
    /\ call.raised = "ValueError"
    /\ Len(db) = 3
    /\ side.url # <<>>
    /\ side.subnet # <<>>
    /\ fleet[1].subnets = <<Cidr(10, 1, 0, 0, 33)>>

---------------------------------------------------------------------------
(* The URL chosen for a mirror.                                            *)

Declares(urls, type) == \E i \in 1..Len(urls) : urls[i][1] = type

DeclaredUrl(urls, type) ==
    urls[CHOOSE i \in 1..Len(urls) : urls[i][1] = type][2]

\* the first protocol of the list that the mapping declares
FirstDeclared(protocols, urls) ==
    protocols[CHOOSE i \in 1..Len(protocols) :
                 /\ Declares(urls, protocols[i])
                 /\ \A j \in 1..(i - 1) : ~Declares(urls, protocols[j])]

\* C31: mirror_url is the URL of the first protocol, in required_protocols
\* order, that the mirror declares, whatever the order of the entries in its
\* urls mapping.
C31_Original ==
    call.fn = "get_mirror_url" /\ call.raised = "" =>
        call.url = DeclaredUrl(call.urls, FirstDeclared(call.protocols, call.urls))


\* ---- C32 ----
IsGeoCall == call.fn = "set_geo_and_location_data_from_db"
Empty(value) == value \in {"", NoneValue}
Locked(value) == value \notin {"Unknown", NoneValue}

CachedFor(f) == get_mirror_list(listCache, f)

\* C33: no two of the sixteen filter combinations have the same cache key,
\* and the list found under the key of a combination holds only mirrors
\* that pass the filters of that combination.
C33_KeyInjective ==
    /\ \A r, s \in RedisKeys : r.key = s.key => r.flags = s.flags
    /\ \A f \in AllFlags :
           CachedFor(f).found =>
               \A i \in 1..Len(CachedFor(f).data) : PassesFilter(CachedFor(f).data[i], f)

\* lists are cached for two combinations, and one of them holds a mirror
\* that the filters of the other reject
C33_Witness ==
    \E f, g \in AllFlags :
        /\ CachedFor(f).found /\ CachedFor(g).found
        /\ \E i \in 1..Len(CachedFor(f).data) : ~PassesFilter(CachedFor(f).data[i], g)


\* ---- C34 ----
\* the mirrors of a network-pass answer that match the client by subnet or
\* ASN (the list S), and the ones added after them
NetworkMatched(r) ==
    SelectSeq(r.mirrors, LAMBDA m : IsNetworkMatch(m, r.ip, get_asn_by_ip(r.ip)))
NetworkPadding(r) ==
    SelectSeq(r.mirrors, LAMBDA m : ~IsNetworkMatch(m, r.ip, get_asn_by_ip(r.ip)))

\* C34 as stated: every mirror the network pass adds as padding has status
\* ok, is not private, is not a cloud mirror and is not among the matched
\* mirrors S, and the padding has at most LENGTH_CLOUD_MIRRORS_LIST - |S|
\* mirrors.
C34_Original ==
    (IsSelection(resp) /\ resp.src = "network") =>
        /\ \A m \in Range(NetworkPadding(resp)) :
               /\ m.status = "ok" /\ ~m.private /\ m.cloud_type = ""
               /\ m \notin Range(NetworkMatched(resp))
        /\ NetworkPadding(resp) # <<>> =>
               Len(NetworkPadding(resp))
                   <= LENGTH_CLOUD_MIRRORS_LIST - Len(NetworkMatched(resp))


\* ---- C35 ----
IsShuffleCall == call.fn = "randomize_mirrors_within_distance"
InCountry(m) == m.country = call.country
DistanceOf(m) == get_distance_in_km(m.latitude, call.lat)
Far(m) == DistanceOf(m) > RANDOMIZE_WITHIN_KM
SortedPlace(m) == CHOOSE i \in 1..Len(call.sorted) : call.sorted[i].mirror = m

\* C35: the result holds every mirror of the input exactly once; in-country
\* mirrors precede out-of-country mirrors; within a country class mirrors
\* within the radius precede mirrors beyond it; mirrors beyond the radius
\* stand in the order of the sorted input, ascending in distance within
\* their class.
C35_RandomizeOrder ==
    IsShuffleCall =>
        /\ Len(call.result) = Len(call.sorted)
        /\ \A k \in 1..Len(call.sorted) :
               Cardinality({i \in 1..Len(call.result) :
                                call.result[i] = call.sorted[k].mirror}) = 1
        /\ \A i, j \in 1..Len(call.result) :
               i < j =>
                   LET a == call.result[i]
                       b == call.result[j]
                   IN  /\ ~(~InCountry(a) /\ InCountry(b))
                       /\ InCountry(a) = InCountry(b) => ~(Far(a) /\ ~Far(b))
                       /\ Far(a) /\ Far(b) => SortedPlace(a) < SortedPlace(b)
                       /\ Far(a) /\ Far(b) /\ InCountry(a) = InCountry(b) =>
                              DistanceOf(a) <= DistanceOf(b)

\* a call on four mirrors, two of them in the country beyond the radius,
\* whose result does not start with the first mirror of the sorted input
C35_Witness ==
    /\ IsShuffleCall
    /\ Len(call.result) = 4
    /\ Cardinality({i \in 1..4 : InCountry(call.result[i]) /\ Far(call.result[i])}) = 2
    /\ call.result[1] # call.sorted[1].mirror


\* ---- C36 ----
\* the version is '<base>-<module>' for a module of optional_module_versions
\* and a base listed for it
IsModuleVersion(version, optional_module_versions) ==
    \E i \in 1..Len(optional_module_versions) :
        \E base \in Range(optional_module_versions[i][2]) :
            version = base \o <<"-", optional_module_versions[i][1]>>

\* C36 as stated: get_allowed_version returns a version '<base>-<module>',
\* with module a key of optional_module_versions and base listed for it,
\* unchanged: it is neither replaced through duplicated_versions nor
\* rejected with UnknownRepoAttribute.
C36_Original ==
    (vcall.called /\ IsModuleVersion(vcall.version, config.optional_module_versions))
        => vcall.result = Ok(vcall.version)


\* ---- C37 ----
\* C37 as stated: without a subnet match, a client matches a mirror by ASN
\* exactly when the client has an ASN and it equals one of the ASNs the
\* mirror declares.
C37_Original ==
    call.fn = "asn in mirror.asn" =>
        (call.matched <=> (call.asn # <<>> /\ call.asn \in Range(call.declared)))


\* ---- C38 ----
\* the calls between the writing of the lock file and the finally block
InsideSection == {i \in 1..Len(inv) : inv[i] \in {"probing", "committed", "refreshed", "raised"}}

\* C38 as stated: at most one call of update_mirrors_handler is between the
\* writing of the lock file and its removal at any time, in every
\* interleaving of concurrent calls.
C38_Original == Cardinality(InsideSection) <= 1


\* ---- C39 ----
\* the step ends a call that had written the lock file
EndsCycle(i) ==
    /\ i <= Len(inv)
    /\ inv[i] \in {"refreshed", "raised"}
    /\ inv'[i] \in {"Done", "failed"}

\* the step is the check of a call that finds no lock file
ChecksFree(i) ==
    /\ i <= Len(inv)
    /\ inv[i] = "start" /\ inv'[i] # "start" /\ ~lock

\* C39: when a call that wrote the lock file ends, with 'Done' or through an
\* exception raised while probing or committing, the lock file is gone
\* after the step; a lock file that exists is eventually removed; and a call
\* that checks while no lock file exists is accepted.
C39_LockReleased ==
    /\ [][\A i \in 1..MaxInvocations : EndsCycle(i) => ~lock']_vars
    /\ (lock ~> ~lock)
    /\ [][\A i \in 1..MaxInvocations : ChecksFree(i) => inv'[i] = "checked"]_vars

\* a call ended through an exception, and a later call was accepted and is
\* now probing
C39_Witness ==
    \E i, j \in 1..Len(inv) :
        /\ i < j
        /\ inv[i] = "failed"
        /\ inv[j] = "probing"
        /\ \A k \in 1..Len(inv) : k \notin {i, j} => inv[k] = "already running"

---------------------------------------------------------------------------
(* The life of a flap entry over the runs of the update script.            *)

Healthy == fleet # <<>> /\ fleet[1].answers = HealthyAnswers
FlapLives(n) == flapCache[n].value # NoFlap /\ flapCache[n].expires > clock
FlapOver(n) == flapCache[n].value # NoFlap /\ flapCache[n].expires <= clock
FirstName == fleet[1].name

\* an entry that exists stays as it is, value and time of expiry
FlapEntryKept ==
    \A n \in ScriptNames :
        (FlapLives(n) /\ flapCache'[n].expires > clock')
            => flapCache'[n] = flapCache[n]

\* an entry is written only by a run whose probe of the mirror failed, with
\* the reason of the failure, to expire FLAPPED_EXPIRED_TIME after that run
FlapEntryWritten ==
    (flapCache'[FirstName] # flapCache[FirstName]) =>
        /\ IsScriptStep
        /\ ~FlapLives(FirstName)
        /\ "root" \in call'.probes[1]
        /\ call'.checked[1].status \in {ReasonRoot, ReasonRepo}
        /\ flapCache'[FirstName]
             = [value |-> call'.checked[1].status,
                expires |-> clock + FLAPPED_EXPIRED_TIME]

\* the first run after the expiry probes the mirror whose name resolves
ProbedAfterExpiry ==
    (IsScriptStep /\ FlapOver(FirstName) /\ fleet[1].answers.dns)
        => "root" \in call'.probes[1]

GotStatusOk == Len(db) = 1 /\ db[1].status = "ok"

\* C40: a flap entry is neither rewritten nor extended while it exists, it
\* expires FLAPPED_EXPIRED_TIME after the failed probe that wrote it, the
\* first run of the update script after the expiry probes the mirror again,
\* and a mirror that has become healthy is committed with status ok in the
\* end, the update cycles being run again and again.
C40_FlapEntryLife ==
    /\ [][FlapEntryKept]_vars
    /\ [][FlapEntryWritten]_vars
    /\ [][ProbedAfterExpiry]_vars
    /\ (Healthy ~> GotStatusOk)

\* x.example was down in the first run, came back, kept the reason of its
\* entry for the runs of the next two ticks, and has just been probed and
\* committed with status ok by the first run after the expiry
C40_Witness ==
    /\ clock = Now + FLAPPED_EXPIRED_TIME + 1
    /\ flapCache["x.example"].expires = Now + FLAPPED_EXPIRED_TIME
    /\ call.fn = "update_mirrors_handler"
    /\ "root" \in call.probes[1]
    /\ call.checked[1].status = "ok"
    /\ GotStatusOk

====
